---- MODULE Spec2Model ----
(***************************************************************************)
(* Incremental styler / flow discovery / break propagation of             *)
(* vivliostyle-core: break.ts (resolveEffectiveBreakValue) and            *)
(* css-styler.ts (SlipMap, Box, BoxStack, Styler).                        *)
(*                                                                         *)
(* JavaScript null / undefined / "property absent" is the string null.    *)
(* The break value null is what the design text calls "none".             *)
(***************************************************************************)
EXTENDS Integers, Sequences, FiniteSets, TLC

VARIABLES
  first, second, resolved,   \* break.ts: the two arguments and the result of the call
  map,                       \* SlipMap.map of a free-standing SlipMap
  registered,                \* history: the calls of addStuckRange made on map
  lastArg,                   \* history: the argument of the latest call made on map
  doc,                       \* the xmldoc: content tree and cascaded styles (input)
  styler,                    \* the Styler object (fields as in css-styler.ts)
  ret,                       \* what the latest Styler operation returned or threw
  log,                       \* history: cascade, BoxStack and styleMap calls made
  lastStart,                 \* history: startOffset of the latest styleUntil call
  repeated                   \* history: styleUntil has been called more than once

vars == <<first, second, resolved, map, registered, lastArg,
          doc, styler, ret, log, lastStart, repeated>>

null == "null"

\* A value named once and used several times: F applied to the value of v.
With(v, F(_)) == CHOOSE y \in {F(w) : w \in {v}} : TRUE

Max(a, b) == IF a >= b THEN a ELSE b

(***************************************************************************)
(* break.ts                                                                *)
(***************************************************************************)
ForcedBreakValues == {"page", "left", "right", "recto", "verso", "column", "region"}
SpreadBreakValues == {"left", "right", "recto", "verso"}
AvoidBreakValues == {"avoid", "avoid-page", "avoid-column", "avoid-region"}

\* The twelve directive values of the design text (null is "none"), and the
\* further value "auto" that a cascaded break-* property can hold.
DirectiveValues == {null} \cup AvoidBreakValues \cup ForcedBreakValues
BreakValues == DirectiveValues \cup {"auto"}

isForcedBreakValue(value) == value \in ForcedBreakValues
isSpreadBreakValue(value) == value \in SpreadBreakValues
isAvoidBreakValue(value) == value \in AvoidBreakValues

\* Mutant: "column" as second lets the second value win.
resolveBothForcedColumnWins(a, b) ==
  CASE b = "column" -> b
    [] b = "region" -> IF a = "column" THEN b ELSE a
    [] OTHER -> b

\* Mutant: the two arms of the "region" case exchanged.
resolveBothForcedRegionSwapped(a, b) ==
  CASE b = "column" -> a
    [] b = "region" -> IF a = "column" THEN a ELSE b
    [] OTHER -> b

\* The switch of lines 129-140, entered when both values are forced and
\* neither is a spread value.
resolveBothForced(a, b) ==
  CASE b = "column" -> a
    [] b = "region" -> IF a = "column" THEN b ELSE a
    [] OTHER -> b

\* Mutant: the avoid value of the first argument is looked at first.
resolveByClassFirstAvoidWins(a, b) ==
  IF isForcedBreakValue(a) /\ isForcedBreakValue(b) THEN resolveBothForced(a, b)
  ELSE IF isForcedBreakValue(b) THEN b
  ELSE IF isForcedBreakValue(a) THEN a
  ELSE IF isAvoidBreakValue(a) THEN a
  ELSE IF isAvoidBreakValue(b) THEN b
  ELSE b

\* Mutant: an avoid value of the second argument beats a forced first one.
resolveByClassAvoidBeatsForced(a, b) ==
  IF isForcedBreakValue(a) /\ isForcedBreakValue(b) THEN resolveBothForced(a, b)
  ELSE IF isForcedBreakValue(b) THEN b
  ELSE IF isAvoidBreakValue(b) THEN b
  ELSE IF isForcedBreakValue(a) THEN a
  ELSE IF isAvoidBreakValue(a) THEN a
  ELSE b

\* Lines 126-151: neither value is null or a spread value.
resolveByClass(a, b) ==
  IF isForcedBreakValue(a) /\ isForcedBreakValue(b) THEN resolveBothForced(a, b)
  ELSE IF isForcedBreakValue(b) THEN b
  ELSE IF isForcedBreakValue(a) THEN a
  ELSE IF isAvoidBreakValue(b) THEN b
  ELSE IF isAvoidBreakValue(a) THEN a
  ELSE b

\* Mutant: a null first argument is returned instead of the second.
resolveNullFirstReturned(a, b) ==
  IF a = null THEN a
  ELSE IF b = null THEN a
  ELSE IF isSpreadBreakValue(b) THEN b
  ELSE IF isSpreadBreakValue(a) THEN a
  ELSE resolveByClass(a, b)

\* Mutant: the spread value of the first argument is looked at first.
resolveFirstSpreadWins(a, b) ==
  IF a = null THEN b
  ELSE IF b = null THEN a
  ELSE IF isSpreadBreakValue(a) THEN a
  ELSE IF isSpreadBreakValue(b) THEN b
  ELSE resolveByClass(a, b)

resolveEffectiveBreakValue(a, b) ==
  IF a = null THEN b
  ELSE IF b = null THEN a
  ELSE IF isSpreadBreakValue(b) THEN b
  ELSE IF isSpreadBreakValue(a) THEN a
  ELSE resolveByClass(a, b)

(***************************************************************************)
(* css-styler.ts: SlipRange, SlipMap                                       *)
(***************************************************************************)
SlipRange(endStuckFixed, endFixed, endSlipped) ==
  [endStuckFixed |-> endStuckFixed, endFixed |-> endFixed, endSlipped |-> endSlipped]

getMaxFixed(m) == IF Len(m) = 0 THEN 0 ELSE m[Len(m)].endFixed

getMaxSlipped(m) == IF Len(m) = 0 THEN 0 ELSE m[Len(m)].endSlipped

\* Mutant: the slipped end of a new range leaves out the slipped end of the
\* range before it.
addStuckRangeFromZero(m, endFixed) ==
  IF Len(m) = 0 THEN <<SlipRange(endFixed, endFixed, endFixed)>>
  ELSE LET range == m[Len(m)]
           endSlipped == endFixed - range.endFixed
       IN IF range.endFixed = range.endStuckFixed
          THEN [m EXCEPT ![Len(m)] = SlipRange(endFixed, endFixed, endSlipped)]
          ELSE Append(m, SlipRange(endFixed, endFixed, endSlipped))

\* Mutant: a new range is opened whatever the last range is.
addStuckRangeAlwaysAppends(m, endFixed) ==
  IF Len(m) = 0 THEN <<SlipRange(endFixed, endFixed, endFixed)>>
  ELSE LET range == m[Len(m)]
           endSlipped == range.endSlipped + endFixed - range.endFixed
       IN Append(m, SlipRange(endFixed, endFixed, endSlipped))

addStuckRange(m, endFixed) ==
  IF Len(m) = 0 THEN <<SlipRange(endFixed, endFixed, endFixed)>>
  ELSE LET range == m[Len(m)]
           endSlipped == range.endSlipped + endFixed - range.endFixed
       IN IF range.endFixed = range.endStuckFixed
          THEN [m EXCEPT ![Len(m)] = SlipRange(endFixed, endFixed, endSlipped)]
          ELSE Append(m, SlipRange(endFixed, endFixed, endSlipped))

\* Mutant: the slipped end of the last range advances with its fixed end.
addSlippedRangeCounted(m, endFixed) ==
  IF Len(m) = 0 THEN <<SlipRange(endFixed, 0, 0)>>
  ELSE [m EXCEPT ![Len(m)].endFixed = endFixed,
                 ![Len(m)].endSlipped = @ + endFixed - m[Len(m)].endFixed]

addSlippedRange(m, endFixed) ==
  IF Len(m) = 0 THEN <<SlipRange(endFixed, 0, 0)>>
  ELSE [m EXCEPT ![Len(m)].endFixed = endFixed]

\* Base.binarySearch(high, good): bisection for the first index in 0..high-1
\* at which good holds. When good holds at none of them the search ends on
\* the last index, high - 1: a query beyond the last range is answered from
\* the last range. For high = 0 it ends on 0. good is given as the sequence
\* of its values at the indices 0..high-1.
RECURSIVE bisect(_, _, _)
bisect(l, h, good) ==
  IF l >= h THEN l
  ELSE LET m == (l + h) \div 2
       IN IF good[m + 1] THEN bisect(l, m, good) ELSE bisect(m + 1, h, good)

binarySearch(high, good) == bisect(0, IF high > 0 THEN high - 1 ELSE 0, good)

slippedByFixedIndex(m, fixed) ==
  binarySearch(Len(m), [i \in 1..Len(m) |-> fixed <= m[i].endFixed])

fixedBySlippedIndex(m, slipped) ==
  binarySearch(Len(m), [i \in 1..Len(m) |-> slipped <= m[i].endSlipped])

\* this.map[index] is undefined when index = this.map.length, which is the
\* case of the empty map: reading a field of it throws a TypeError.
slippedByFixedThrows(m, fixed) == slippedByFixedIndex(m, fixed) >= Len(m)

fixedBySlippedThrows(m, slipped) == fixedBySlippedIndex(m, slipped) >= Len(m)

\* Mutant: the operands of the subtraction inside Math.max exchanged.
slippedByFixedSwapped(m, fixed) ==
  LET range == m[slippedByFixedIndex(m, fixed) + 1]
  IN range.endSlipped - Max(0, fixed - range.endStuckFixed)

slippedByFixed(m, fixed) ==
  LET range == m[slippedByFixedIndex(m, fixed) + 1]
  IN range.endSlipped - Max(0, range.endStuckFixed - fixed)

\* Mutant: measured from the end of the range instead of the end of its
\* stuck part.
fixedBySlippedFromEndFixed(m, slipped) ==
  LET range == m[fixedBySlippedIndex(m, slipped) + 1]
  IN range.endFixed - (range.endSlipped - slipped)

fixedBySlipped(m, slipped) ==
  LET range == m[fixedBySlippedIndex(m, slipped) + 1]
  IN range.endStuckFixed - (range.endSlipped - slipped)

(***************************************************************************)
(* The content tree (DOM) and the XMLDocHolder offsets.                    *)
(* Nodes are 1..Len(d.nodes) in document order, node 1 is xmldoc.root.     *)
(* DocumentNode is the root's parentNode; nullNode is a null Node.         *)
(***************************************************************************)
DocumentNode == 0
nullNode == -1
ELEMENT_NODE == 1
TEXT_NODE == 3
DOCUMENT_NODE == 9

NodeIds(d) == 1..Len(d.nodes)

nodeType(d, n) == IF n = DocumentNode THEN DOCUMENT_NODE ELSE d.nodes[n].nodeType

parentNode(d, n) == IF n = DocumentNode THEN nullNode ELSE d.nodes[n].parent

Min(S) == CHOOSE x \in S : \A y \in S : x <= y

firstChild(d, n) ==
  LET kids == {i \in NodeIds(d) : d.nodes[i].parent = n}
  IN IF kids = {} THEN nullNode ELSE Min(kids)

nextSibling(d, n) ==
  IF n = DocumentNode THEN nullNode
  ELSE LET sibs == {i \in NodeIds(d) : i > n /\ d.nodes[i].parent = d.nodes[n].parent}
       IN IF sibs = {} THEN nullNode ELSE Min(sibs)

\* Length a node adds to the document offset: 1 for an element, the length
\* of the text for a text node.
nodeLength(d, n) ==
  IF d.nodes[n].nodeType = ELEMENT_NODE THEN 1 ELSE d.nodes[n].textLength

RECURSIVE lengthBefore(_, _)
lengthBefore(d, n) == IF n <= 1 THEN 0 ELSE lengthBefore(d, n - 1) + nodeLength(d, n - 1)

\* xmldoc.getElementOffset(element): the root is at 0.
getElementOffset(d, n) == lengthBefore(d, n)

totalLength(d) == lengthBefore(d, Len(d.nodes) + 1)

RECURSIVE isAncestorOrSelf(_, _, _)
isAncestorOrSelf(d, a, n) ==
  IF n = a THEN TRUE
  ELSE IF n <= 1 THEN FALSE
  ELSE isAncestorOrSelf(d, a, d.nodes[n].parent)

\* xmldoc.getNodeOffset(node, offsetInNode, after) for an element: its own
\* offset, or with after the offset at which its subtree ends.
getNodeOffset(d, n, after) ==
  IF ~after THEN getElementOffset(d, n)
  ELSE LET inside == {i \in NodeIds(d) : isAncestorOrSelf(d, n, i)}
           lastIn == CHOOSE x \in inside : \A y \in inside : y <= x
       IN lengthBefore(d, lastIn + 1)

\* xmldoc.getNodeByOffset(offset): the root for an offset at or before the
\* root's, otherwise the last node that starts at or before the offset.
getNodeByOffset(d, offset) ==
  LET at == {i \in NodeIds(d) : lengthBefore(d, i) <= offset}
  IN IF at = {} THEN 1 ELSE CHOOSE x \in at : \A y \in at : y <= x

(***************************************************************************)
(* Cascaded styles. A style is a record of the properties the styler      *)
(* reads; before and after hold the _pseudos entry (<<>> when absent).     *)
(***************************************************************************)
PseudoStyle(display, content, breakBefore, breakAfter) ==
  [display |-> display, position |-> null, float |-> null, flowInto |-> null,
   breakBefore |-> breakBefore, breakAfter |-> breakAfter, content |-> content,
   writingMode |-> null, direction |-> null,
   before |-> <<>>, after |-> <<>>]

ElementStyle(display, flowInto, breakBefore, breakAfter, before, after) ==
  [display |-> display, position |-> null, float |-> null, flowInto |-> flowInto,
   breakBefore |-> breakBefore, breakAfter |-> breakAfter, content |-> null,
   writingMode |-> null, direction |-> null,
   before |-> before, after |-> after]

\* Vtree.nonTrivialContent(val)
nonTrivialContent(val) == val \notin {null, "normal", "none"}

(***************************************************************************)
(* display.ts                                                              *)
(***************************************************************************)
blockify(display) ==
  CASE display = "inline-flex" -> "flex"
    [] display = "inline-grid" -> "grid"
    [] display = "inline-table" -> "table"
    [] display \in {"inline", "table-row-group", "table-column", "table-column-group",
                    "table-header-group", "table-footer-group", "table-row",
                    "table-cell", "table-caption", "inline-block"} -> "block"
    [] OTHER -> display

isAbsolutelyPositioned(position) == position \in {"absolute", "fixed"}

getComputedDislayValue(display, position, float, isRoot) ==
  IF display = "none" THEN display
  ELSE IF isAbsolutelyPositioned(position) THEN blockify(display)
  ELSE IF (float # null /\ float # "none") \/ isRoot THEN blockify(display)
  ELSE display

isBlockDisplay(display, position, float, isRoot) ==
  getComputedDislayValue(display, position, float, isRoot) = "block"

(***************************************************************************)
(* css-styler.ts: Box                                                      *)
(* A Box is a record; flowChunk is the index of its FlowChunk in           *)
(* Styler.flowChunks (the chunk object is shared by reference); beforeBox  *)
(* and afterBox are <<>> for null and <<box>> otherwise.                   *)
(***************************************************************************)
displayValue(style) == IF style.display = null THEN "inline" ELSE style.display

hasBoxOf(style, isParentBoxDisplayed) ==
  isParentBoxDisplayed /\ displayValue(style) # "none"

isBlockOf(style, isRoot) ==
  isBlockDisplay(displayValue(style), style.position, style.float, isRoot)

\* What Box.getBreakValue(edge) gives on a box with the given style
getBreakValueOf(style, isRoot, edge) ==
  IF isBlockOf(style, isRoot)
  THEN (IF edge = "before" THEN style.breakBefore ELSE style.breakAfter)
  ELSE null

\* Mutant: hasBox() computes its value on every call.
hasBoxRecomputes(box) ==
  [box EXCEPT !.hasBoxValue = hasBoxOf(box.style, box.isParentBoxDisplayed),
              !.hasBoxComputed = @ + 1]

\* Box.hasBox(): the box after the call, whose hasBoxValue is what the call
\* returns. hasBoxComputed counts the computations of hasBoxValue; it is 0
\* as long as the field holds the null it starts with.
hasBox(box) ==
  IF box.hasBoxComputed = 0
  THEN [box EXCEPT !.hasBoxValue = hasBoxOf(box.style, box.isParentBoxDisplayed),
                   !.hasBoxComputed = @ + 1]
  ELSE box

\* Box.isBlock(): the box after the call, whose isBlockValue is what the call
\* returns; isBlockComputed counts the computations of isBlockValue.
isBlock(box) ==
  IF box.isBlockComputed = 0
  THEN [box EXCEPT !.isBlockValue = isBlockOf(box.style, box.isRoot),
                   !.isBlockComputed = @ + 1]
  ELSE box

\* Box.getBreakValue(edge), which asks isBlock()
getBreakValue(box, edge) ==
  IF isBlock(box).isBlockValue
  THEN (IF edge = "before" THEN box.style.breakBefore ELSE box.style.breakAfter)
  ELSE null

\* new Box(...): the box built, and flowChunk.breakBefore as the constructor
\* leaves it (chunkBreakBefore is its value before the call). The constructor
\* asks hasBox() (line 162), isBlock() for the ::before box (line 172) and
\* isBlock() through getBreakValue("before") (line 187).
RECURSIVE newBox(_, _, _, _, _, _, _, _, _)
newBox(style, offset, isRoot, flowChunk, flowName, chunkBreakBefore, atBlockStart, atFlowStart, isParentBoxDisplayed) ==
  LET fields == [style |-> style, offset |-> offset, isRoot |-> isRoot,
                 flowChunk |-> flowChunk, flowName |-> flowName,
                 atBlockStart |-> atBlockStart, atFlowStart |-> atFlowStart,
                 isParentBoxDisplayed |-> isParentBoxDisplayed,
                 isBlockValue |-> FALSE, isBlockComputed |-> 0,
                 hasBoxValue |-> FALSE, hasBoxComputed |-> 0,
                 beforeBox |-> <<>>, afterBox |-> <<>>, breakBefore |-> null]
      asked == hasBox(fields)
      withPseudo == asked.hasBoxValue /\ style.before # <<>>
      parent == IF withPseudo THEN isBlock(asked) ELSE asked
  IN With(IF withPseudo
          THEN newBox(style.before[1], offset, FALSE, flowChunk, flowName,
                      chunkBreakBefore, parent.isBlockValue, atFlowStart, TRUE)
          ELSE [box |-> <<>>, chunkBreakBefore |-> chunkBreakBefore],
          LAMBDA built :
            LET kept == withPseudo /\ nonTrivialContent(built.box.style.content)
                breakBefore == resolveEffectiveBreakValue(
                                 getBreakValue(parent, "before"),
                                 IF kept THEN built.box.breakBefore ELSE null)
            IN [box |-> [isBlock(parent) EXCEPT
                           !.beforeBox = IF kept THEN <<built.box>> ELSE <<>>,
                           !.breakBefore = breakBefore],
                chunkBreakBefore |->
                  IF atFlowStart /\ isForcedBreakValue(breakBefore)
                  THEN resolveEffectiveBreakValue(built.chunkBreakBefore, breakBefore)
                  ELSE built.chunkBreakBefore])

\* Box.buildAfterPseudoElementBox(offset, atBlockStart, atFlowStart): the box
\* with afterBox set when the ::after content is non-trivial, and
\* flowChunk.breakBefore as the pseudo-box's constructor leaves it.
buildAfterPseudoElementBox(this, chunkBreakBefore, offset, atBlockStart, atFlowStart) ==
  LET box == hasBox(this)
  IN IF box.hasBoxValue /\ box.style.after # <<>>
     THEN With(newBox(box.style.after[1], offset, FALSE, box.flowChunk, box.flowName,
                      chunkBreakBefore, atBlockStart, atFlowStart, TRUE),
               LAMBDA built :
                 [box |-> IF nonTrivialContent(built.box.style.content)
                          THEN [box EXCEPT !.afterBox = <<built.box>>]
                          ELSE box,
                  chunkBreakBefore |-> built.chunkBreakBefore])
     ELSE [box |-> box, chunkBreakBefore |-> chunkBreakBefore]

(***************************************************************************)
(* css-styler.ts: BoxStack                                                 *)
(* The operators take the Styler record s, whose fields boxStack and       *)
(* flowChunks they read and change; noChunk is an absent newFlowChunk.     *)
(***************************************************************************)
noChunk == 0

newBoxStack ==
  [stack |-> <<>>, atBlockStart |-> TRUE, atFlowStart |-> TRUE, atStartStack |-> <<>>]

empty(bs) == Len(bs.stack) = 0

lastBox(bs) == bs.stack[Len(bs.stack)]

lastFlowName(bs) == IF empty(bs) THEN null ELSE lastBox(bs).flowName

isCurrentBoxDisplayed(bs) ==
  \A i \in 1..Len(bs.stack) : displayValue(bs.stack[i].style) # "none"

\* push lines 356-361: the box after push has asked hasBox(), isBlock() when
\* the box has a box and no beforeBox, and hasBox() again.
askedAtPush(box) ==
  LET asked == hasBox(box)
  IN hasBox(IF asked.hasBoxValue /\ asked.beforeBox = <<>> THEN isBlock(asked) ELSE asked)

\* push reads lastBox.flowChunk of an undefined lastBox when the stack is
\* empty and no newFlowChunk is given.
pushThrows(s, newFlowChunk) == newFlowChunk = noChunk /\ empty(s.boxStack)

\* Mutant: the pair (atBlockStart, atFlowStart) is saved as the push leaves
\* it, not as it was before.
pushSavesAfter(s, style, offset, isRoot, newFlowChunk) ==
  LET bs == s.boxStack
      hasLast == ~empty(bs)
      saves == newFlowChunk # noChunk /\ hasLast
               /\ s.flowChunks[newFlowChunk].flowName # lastBox(bs).flowName
      flowChunk == IF newFlowChunk # noChunk THEN newFlowChunk ELSE lastBox(bs).flowChunk
      isAtFlowStart == bs.atFlowStart \/ newFlowChunk # noChunk
      isParentBoxDisplayed == isCurrentBoxDisplayed(bs)
  IN With(newBox(style, offset, isRoot, flowChunk,
                 s.flowChunks[flowChunk].flowName,
                 s.flowChunks[flowChunk].breakBefore,
                 isAtFlowStart \/ bs.atBlockStart, isAtFlowStart,
                 isParentBoxDisplayed),
          LAMBDA built :
            LET box == askedAtPush(built.box)
                atBlockStart == IF box.hasBoxValue
                                THEN box.beforeBox = <<>> /\ box.isBlockValue
                                ELSE bs.atBlockStart
                atFlowStart == IF box.hasBoxValue
                               THEN box.beforeBox = <<>> /\ isAtFlowStart
                               ELSE bs.atFlowStart
            IN [s EXCEPT
                  !.flowChunks[flowChunk].breakBefore = built.chunkBreakBefore,
                  !.boxStack =
                    [stack |-> Append(bs.stack, box),
                     atBlockStart |-> atBlockStart,
                     atFlowStart |-> atFlowStart,
                     atStartStack |->
                       IF saves
                       THEN Append(bs.atStartStack,
                                   [atBlockStart |-> atBlockStart,
                                    atFlowStart |-> atFlowStart])
                       ELSE bs.atStartStack],
                  !.log = Append(@, [op |-> "push", arg |-> offset,
                                     saves |-> saves,
                                     atBlockStart |-> bs.atBlockStart,
                                     atFlowStart |-> bs.atFlowStart,
                                     hasBox |-> built.box.hasBoxValue,
                                     isBlock |-> built.box.isBlockValue,
                                     hasBoxComputed |-> box.hasBoxComputed,
                                     isBlockComputed |-> box.isBlockComputed])])

\* Mutant: atBlockStart and atFlowStart are set to TRUE or left as they were,
\* never set to FALSE.
pushKeepsFlags(s, style, offset, isRoot, newFlowChunk) ==
  LET bs == s.boxStack
      hasLast == ~empty(bs)
      saves == newFlowChunk # noChunk /\ hasLast
               /\ s.flowChunks[newFlowChunk].flowName # lastBox(bs).flowName
      atStartStack ==
        IF saves
        THEN Append(bs.atStartStack,
                    [atBlockStart |-> bs.atBlockStart, atFlowStart |-> bs.atFlowStart])
        ELSE bs.atStartStack
      flowChunk == IF newFlowChunk # noChunk THEN newFlowChunk ELSE lastBox(bs).flowChunk
      isAtFlowStart == bs.atFlowStart \/ newFlowChunk # noChunk
      isParentBoxDisplayed == isCurrentBoxDisplayed(bs)
  IN With(newBox(style, offset, isRoot, flowChunk,
                 s.flowChunks[flowChunk].flowName,
                 s.flowChunks[flowChunk].breakBefore,
                 isAtFlowStart \/ bs.atBlockStart, isAtFlowStart,
                 isParentBoxDisplayed),
          LAMBDA built :
            LET box == askedAtPush(built.box)
                atBlockStart == IF box.hasBoxValue /\ box.beforeBox = <<>> /\ box.isBlockValue
                                THEN TRUE ELSE bs.atBlockStart
                atFlowStart == IF box.hasBoxValue /\ box.beforeBox = <<>> /\ isAtFlowStart
                               THEN TRUE ELSE bs.atFlowStart
            IN [s EXCEPT
                  !.flowChunks[flowChunk].breakBefore = built.chunkBreakBefore,
                  !.boxStack =
                    [stack |-> Append(bs.stack, box),
                     atBlockStart |-> atBlockStart,
                     atFlowStart |-> atFlowStart,
                     atStartStack |-> atStartStack],
                  !.log = Append(@, [op |-> "push", arg |-> offset,
                                     saves |-> saves,
                                     atBlockStart |-> bs.atBlockStart,
                                     atFlowStart |-> bs.atFlowStart,
                                     hasBox |-> built.box.hasBoxValue,
                                     isBlock |-> built.box.isBlockValue,
                                     hasBoxComputed |-> box.hasBoxComputed,
                                     isBlockComputed |-> box.isBlockComputed,
                                     beforeBox |-> box.beforeBox # <<>>,
                                     isAtFlowStart |-> isAtFlowStart,
                                     blockStartAfter |-> atBlockStart,
                                     flowStartAfter |-> atFlowStart])])

\* BoxStack.push(style, offset, isRoot, newFlowChunk): the Styler record after
\* the call; the box pushed is the new last box. The history entry keeps
\* whether the pair (atBlockStart, atFlowStart) was saved, the pair as it was
\* before the call and as the call leaves it, what hasBox() and isBlock() gave
\* in the constructor, whether the box has a beforeBox, and isAtFlowStart.
push(s, style, offset, isRoot, newFlowChunk) ==
  LET bs == s.boxStack
      hasLast == ~empty(bs)
      saves == newFlowChunk # noChunk /\ hasLast
               /\ s.flowChunks[newFlowChunk].flowName # lastBox(bs).flowName
      atStartStack ==
        IF saves
        THEN Append(bs.atStartStack,
                    [atBlockStart |-> bs.atBlockStart, atFlowStart |-> bs.atFlowStart])
        ELSE bs.atStartStack
      flowChunk == IF newFlowChunk # noChunk THEN newFlowChunk ELSE lastBox(bs).flowChunk
      isAtFlowStart == bs.atFlowStart \/ newFlowChunk # noChunk
      isParentBoxDisplayed == isCurrentBoxDisplayed(bs)
  IN With(newBox(style, offset, isRoot, flowChunk,
                 s.flowChunks[flowChunk].flowName,
                 s.flowChunks[flowChunk].breakBefore,
                 isAtFlowStart \/ bs.atBlockStart, isAtFlowStart,
                 isParentBoxDisplayed),
          LAMBDA built :
            LET box == askedAtPush(built.box)
            IN [s EXCEPT
                  !.flowChunks[flowChunk].breakBefore = built.chunkBreakBefore,
                  !.boxStack =
                    [stack |-> Append(bs.stack, box),
                     atBlockStart |-> IF box.hasBoxValue
                                      THEN box.beforeBox = <<>> /\ box.isBlockValue
                                      ELSE bs.atBlockStart,
                     atFlowStart |-> IF box.hasBoxValue
                                     THEN box.beforeBox = <<>> /\ isAtFlowStart
                                     ELSE bs.atFlowStart,
                     atStartStack |-> atStartStack],
                  !.log = Append(@, [op |-> "push", arg |-> offset,
                                     saves |-> saves,
                                     atBlockStart |-> bs.atBlockStart,
                                     atFlowStart |-> bs.atFlowStart,
                                     hasBox |-> built.box.hasBoxValue,
                                     isBlock |-> built.box.isBlockValue,
                                     hasBoxComputed |-> box.hasBoxComputed,
                                     isBlockComputed |-> box.isBlockComputed,
                                     beforeBox |-> box.beforeBox # <<>>,
                                     isAtFlowStart |-> isAtFlowStart,
                                     blockStartAfter |->
                                       IF box.hasBoxValue
                                       THEN box.beforeBox = <<>> /\ box.isBlockValue
                                       ELSE bs.atBlockStart,
                                     flowStartAfter |->
                                       IF box.hasBoxValue
                                       THEN box.beforeBox = <<>> /\ isAtFlowStart
                                       ELSE bs.atFlowStart])])

\* BoxStack.encounteredTextNode(node); canIgnore is Vtree.canIgnore(node,
\* whitespace) for the box's white-space value.
encounteredTextNode(s, canIgnore) ==
  LET bs == s.boxStack
  IN IF bs.atBlockStart \/ bs.atFlowStart
     THEN LET box == hasBox(lastBox(bs))
              asked == [s EXCEPT !.boxStack.stack[Len(bs.stack)] = box]
          IN IF box.hasBoxValue /\ ~canIgnore
             THEN [asked EXCEPT !.boxStack.atBlockStart = FALSE,
                                !.boxStack.atFlowStart = FALSE]
             ELSE asked
     ELSE s

\* pop on an empty stack reads a method of undefined; so does restoring from
\* an empty atStartStack.
popThrows(s) ==
  LET bs == s.boxStack
  IN \/ empty(bs)
     \/ /\ Len(bs.stack) >= 2
        /\ bs.stack[Len(bs.stack) - 1].flowName # lastBox(bs).flowName
        /\ Len(bs.atStartStack) = 0

\* Mutant: the chunk's breakBefore is assigned the ::after pseudo-box's value
\* instead of the value resolved with the one it holds.
popAssignsChunkBreak(s, offset) ==
  LET bs == s.boxStack
      n == Len(bs.stack)
      chunk == bs.stack[n].flowChunk
      rest == SubSeq(bs.stack, 1, n - 1)
      hasParent == n >= 2
      atStart == bs.atStartStack[Len(bs.atStartStack)]
  IN With(buildAfterPseudoElementBox(bs.stack[n], s.flowChunks[chunk].breakBefore,
                                     offset, bs.atBlockStart, bs.atFlowStart),
          LAMBDA after :
            LET sameFlow == hasParent /\ rest[n - 1].flowName = after.box.flowName
                box == IF sameFlow THEN hasBox(after.box) ELSE after.box
                chunkBreakBefore ==
                  IF bs.atFlowStart /\ box.afterBox # <<>>
                  THEN getBreakValue(box.afterBox[1], "before")
                  ELSE after.chunkBreakBefore
                restores == hasParent /\ ~sameFlow
                atBlockStart == IF restores THEN atStart.atBlockStart
                                ELSE IF sameFlow /\ box.hasBoxValue THEN FALSE
                                ELSE bs.atBlockStart
                atFlowStart == IF restores THEN atStart.atFlowStart
                               ELSE IF sameFlow /\ box.hasBoxValue THEN FALSE
                               ELSE bs.atFlowStart
            IN [s |-> [s EXCEPT
                         !.flowChunks[chunk].breakBefore = chunkBreakBefore,
                         !.boxStack =
                           [stack |-> rest,
                            atBlockStart |-> atBlockStart,
                            atFlowStart |-> atFlowStart,
                            atStartStack |->
                              IF restores
                              THEN SubSeq(bs.atStartStack, 1, Len(bs.atStartStack) - 1)
                              ELSE bs.atStartStack],
                         !.log = Append(@, [op |-> "pop", arg |-> box.offset,
                                            restores |-> restores,
                                            atBlockStart |-> atBlockStart,
                                            atFlowStart |-> atFlowStart,
                                            hasBox |-> box.hasBoxValue,
                                            isBlock |-> box.isBlockValue,
                                            hasBoxComputed |-> box.hasBoxComputed,
                                            isBlockComputed |-> box.isBlockComputed])],
                box |-> box])

\* BoxStack.pop(offset): the Styler record after the call and the box popped.
\* The history entry keeps whether the pair (atBlockStart, atFlowStart) was
\* restored, the pair as the call leaves it, and what hasBox() and isBlock()
\* give on the box popped.
pop(s, offset) ==
  LET bs == s.boxStack
      n == Len(bs.stack)
      chunk == bs.stack[n].flowChunk
      rest == SubSeq(bs.stack, 1, n - 1)
      hasParent == n >= 2
      atStart == bs.atStartStack[Len(bs.atStartStack)]
  IN With(buildAfterPseudoElementBox(bs.stack[n], s.flowChunks[chunk].breakBefore,
                                     offset, bs.atBlockStart, bs.atFlowStart),
          LAMBDA after :
            LET sameFlow == hasParent /\ rest[n - 1].flowName = after.box.flowName
                box == IF sameFlow THEN hasBox(after.box) ELSE after.box
                chunkBreakBefore ==
                  IF bs.atFlowStart /\ box.afterBox # <<>>
                  THEN resolveEffectiveBreakValue(after.chunkBreakBefore,
                                                  getBreakValue(box.afterBox[1], "before"))
                  ELSE after.chunkBreakBefore
                restores == hasParent /\ ~sameFlow
                atBlockStart == IF restores THEN atStart.atBlockStart
                                ELSE IF sameFlow /\ box.hasBoxValue THEN FALSE
                                ELSE bs.atBlockStart
                atFlowStart == IF restores THEN atStart.atFlowStart
                               ELSE IF sameFlow /\ box.hasBoxValue THEN FALSE
                               ELSE bs.atFlowStart
            IN [s |-> [s EXCEPT
                         !.flowChunks[chunk].breakBefore = chunkBreakBefore,
                         !.boxStack =
                           [stack |-> rest,
                            atBlockStart |-> atBlockStart,
                            atFlowStart |-> atFlowStart,
                            atStartStack |->
                              IF restores
                              THEN SubSeq(bs.atStartStack, 1, Len(bs.atStartStack) - 1)
                              ELSE bs.atStartStack],
                         !.log = Append(@, [op |-> "pop", arg |-> box.offset,
                                            restores |-> restores,
                                            atBlockStart |-> atBlockStart,
                                            atFlowStart |-> atFlowStart,
                                            hasBox |-> box.hasBoxValue,
                                            isBlock |-> box.isBlockValue,
                                            hasBoxComputed |-> box.hasBoxComputed,
                                            isBlockComputed |-> box.isBlockComputed])],
                box |-> box])

\* The walk of nearestBlockStartOffset from stack index i (0-based, as in the
\* source) upwards; NoBlockStart stands for the thrown
\* Error("No block start offset found!").
NoBlockStart == -1

\* Mutant: at an ancestor of another flow the walk returns that ancestor's
\* offset.
RECURSIVE blockStartWalkIntoOtherFlow(_, _, _)
blockStartWalkIntoOtherFlow(stack, i, box) ==
  IF i < 0 THEN NoBlockStart
  ELSE LET parent == stack[i + 1]
       IN IF parent.flowName # box.flowName THEN parent.offset
          ELSE IF ~parent.atBlockStart THEN parent.offset
          ELSE IF parent.isRoot THEN parent.offset
          ELSE blockStartWalkIntoOtherFlow(stack, i - 1, parent)

RECURSIVE blockStartWalk(_, _, _)
blockStartWalk(stack, i, box) ==
  IF i < 0 THEN NoBlockStart
  ELSE LET parent == stack[i + 1]
       IN IF parent.flowName # box.flowName THEN box.offset
          ELSE IF ~parent.atBlockStart THEN parent.offset
          ELSE IF parent.isRoot THEN parent.offset
          ELSE blockStartWalk(stack, i - 1, parent)

\* BoxStack.nearestBlockStartOffset(box). Boxes are compared by identity in
\* the source; a box on the stack is identified by its offset.
nearestBlockStartOffset(bs, box) ==
  IF ~box.atBlockStart THEN box.offset
  ELSE LET top == Len(bs.stack) - 1
           isTop == top >= 0 /\ bs.stack[top + 1].offset = box.offset
                             /\ bs.stack[top + 1].style = box.style
       IN blockStartWalk(bs.stack, IF isTop THEN top - 1 ELSE top, box)

(***************************************************************************)
(* css-styler.ts: Styler                                                   *)
(* The operators take and give the Styler record s (its fields, and the    *)
(* history log) and the xmldoc d. A result is [s, ret] or [s, thrown].     *)
(***************************************************************************)
Number(v) == [tag |-> "number", value |-> v]
PositiveInfinity == [tag |-> "Infinity", value |-> 0]
Thrown(e) == [tag |-> e, value |-> 0]
NoResult == [tag |-> "none", value |-> 0]

Logged(s, op, arg) == [s EXCEPT !.log = Append(@, [op |-> op, arg |-> arg])]

\* this.breakBeforeValues[offset], undefined read as null
breakBeforeValueAt(s, offset) ==
  IF offset \in DOMAIN s.breakBeforeValues THEN s.breakBeforeValues[offset] ELSE null

\* Mutant: a forced break's offset is appended whatever the last offset is.
registerForcedBreakOffsetAlways(s, breakValue, offset, flowName) ==
  LET offsets == s.flows[flowName].forcedBreakOffsets
      appended == IF isForcedBreakValue(breakValue)
                  THEN Append(offsets, offset)
                  ELSE offsets
      value == resolveEffectiveBreakValue(breakBeforeValueAt(s, offset), breakValue)
  IN [s EXCEPT
        !.flows[flowName].forcedBreakOffsets = appended,
        !.breakBeforeValues =
          [o \in (DOMAIN s.breakBeforeValues) \cup {offset} |->
             IF o = offset THEN value ELSE s.breakBeforeValues[o]]]

\* Styler.registerForcedBreakOffset(breakValue, offset, flowName); the
\* history keeps the calls made with a forced break value.
registerForcedBreakOffset(s, breakValue, offset, flowName) ==
  LET offsets == s.flows[flowName].forcedBreakOffsets
      appended == IF isForcedBreakValue(breakValue)
                     /\ (Len(offsets) = 0 \/ offsets[Len(offsets)] < offset)
                  THEN Append(offsets, offset)
                  ELSE offsets
      value == resolveEffectiveBreakValue(breakBeforeValueAt(s, offset), breakValue)
  IN [s EXCEPT
        !.flows[flowName].forcedBreakOffsets = appended,
        !.breakBeforeValues =
          [o \in (DOMAIN s.breakBeforeValues) \cup {offset} |->
             IF o = offset THEN value ELSE s.breakBeforeValues[o]],
        !.log = IF isForcedBreakValue(breakValue)
                THEN Append(@, [op |-> "registerForcedBreakOffset", arg |-> offset,
                                flow |-> flowName])
                ELSE @]

\* this.flowListener.encounteredFlowChunk(flowChunk, flow): the history keeps
\* the index of the chunk in flowChunks and the name of the Flow handed over.
notifyFlowListener(s, chunk, flow) ==
  [s EXCEPT !.log = Append(@, [op |-> "encounteredFlowChunk", arg |-> chunk,
                               flow |-> flow.flowName])]

\* Mutant: the listener is told of a chunk only when the chunk opens a flow
\* that was not registered before.
encounteredFlowElementNewFlowOnly(s, flowName, style, elem, startOffset) ==
  LET flowChunk == [flowName |-> flowName, element |-> elem,
                    startOffset |-> startOffset,
                    breakBefore |-> breakBeforeValueAt(s, startOffset)]
      flows == IF flowName \in DOMAIN s.flows THEN s.flows
               ELSE [f \in (DOMAIN s.flows) \cup {flowName} |->
                       IF f = flowName
                       THEN [flowName |-> flowName,
                             parentFlowName |-> lastFlowName(s.boxStack),
                             forcedBreakOffsets |-> <<>>]
                       ELSE s.flows[f]]
      s1 == [s EXCEPT
               !.flows = flows,
               !.flowChunks = Append(@, flowChunk),
               !.flowToReach = IF @ = flowName THEN null ELSE @]
  IN IF s.flowListener # null /\ flowName \notin DOMAIN s.flows
     THEN notifyFlowListener(s1, Len(s1.flowChunks), flows[flowName])
     ELSE s1

\* Mutant: the chunks already discovered for the flow are moved to the start
\* offset of the new chunk.
encounteredFlowElementMovesChunks(s, flowName, style, elem, startOffset) ==
  LET flowChunk == [flowName |-> flowName, element |-> elem,
                    startOffset |-> startOffset,
                    breakBefore |-> breakBeforeValueAt(s, startOffset)]
      flows == IF flowName \in DOMAIN s.flows THEN s.flows
               ELSE [f \in (DOMAIN s.flows) \cup {flowName} |->
                       IF f = flowName
                       THEN [flowName |-> flowName,
                             parentFlowName |-> lastFlowName(s.boxStack),
                             forcedBreakOffsets |-> <<>>]
                       ELSE s.flows[f]]
      moved == [i \in 1..Len(s.flowChunks) |->
                  IF s.flowChunks[i].flowName = flowName
                  THEN [s.flowChunks[i] EXCEPT !.startOffset = startOffset]
                  ELSE s.flowChunks[i]]
      s1 == [s EXCEPT
               !.flows = flows,
               !.flowChunks = Append(moved, flowChunk),
               !.flowToReach = IF @ = flowName THEN null ELSE @]
  IN IF s.flowListener # null
     THEN notifyFlowListener(s1, Len(s1.flowChunks), flows[flowName])
     ELSE s1

\* Styler.encounteredFlowElement: the new chunk is the last of flowChunks.
encounteredFlowElement(s, flowName, style, elem, startOffset) ==
  LET flowChunk == [flowName |-> flowName, element |-> elem,
                    startOffset |-> startOffset,
                    breakBefore |-> breakBeforeValueAt(s, startOffset)]
      flows == IF flowName \in DOMAIN s.flows THEN s.flows
               ELSE [f \in (DOMAIN s.flows) \cup {flowName} |->
                       IF f = flowName
                       THEN [flowName |-> flowName,
                             parentFlowName |-> lastFlowName(s.boxStack),
                             forcedBreakOffsets |-> <<>>]
                       ELSE s.flows[f]]
      s1 == [s EXCEPT
               !.flows = flows,
               !.flowChunks = Append(@, flowChunk),
               !.flowToReach = IF @ = flowName THEN null ELSE @]
  IN IF s.flowListener # null
     THEN notifyFlowListener(s1, Len(s1.flowChunks), flows[flowName])
     ELSE s1

\* styleUntil lines 874-896: the break values of the box popped.
leaveBox(s, box) ==
  LET hasAfter == box.afterBox # <<>>
      propagates == hasAfter /\ box.afterBox[1].atBlockStart
      anchor == IF propagates THEN nearestBlockStartOffset(s.boxStack, box)
                ELSE IF hasAfter THEN box.afterBox[1].offset ELSE 0
      breakAfter == resolveEffectiveBreakValue(
                      IF hasAfter THEN getBreakValue(box.afterBox[1], "after") ELSE null,
                      getBreakValue(box, "after"))
  IN IF propagates /\ anchor = NoBlockStart
     THEN [s |-> s, thrown |-> "Error"]
     ELSE With(IF hasAfter
               THEN registerForcedBreakOffset(
                      s, getBreakValue(box.afterBox[1], "before"), anchor, box.flowName)
               ELSE s,
               LAMBDA s3 :
                 [s |-> registerForcedBreakOffset(s3, breakAfter, s3.lastOffset, box.flowName),
                  thrown |-> null])

\* Mutant: this.primary is left as the element's content set it.
leaveElementKeepsPrimary(s) ==
  LET n == Len(s.primaryStack)
  IN With(Logged([s EXCEPT
                    !.cascade = IF Len(@) = 0 THEN @ ELSE SubSeq(@, 1, Len(@) - 1),
                    !.primaryStack = IF n = 0 THEN @ ELSE SubSeq(@, 1, n - 1)],
                 "popElement", s.last),
          LAMBDA s1 :
            IF popThrows(s1) THEN [s |-> s1, thrown |-> "TypeError"]
            ELSE With(pop(s1, s1.lastOffset),
                      LAMBDA popped : leaveBox(popped.s, popped.box)))

\* styleUntil lines 870-897: leaving the element this.last.
leaveElement(s) ==
  LET n == Len(s.primaryStack)
  IN With(Logged([s EXCEPT
                    !.cascade = IF Len(@) = 0 THEN @ ELSE SubSeq(@, 1, Len(@) - 1),
                    !.primary = IF n = 0 THEN FALSE ELSE s.primaryStack[n],
                    !.primaryStack = IF n = 0 THEN @ ELSE SubSeq(@, 1, n - 1)],
                 "popElement", s.last),
          LAMBDA s1 :
            IF popThrows(s1) THEN [s |-> s1, thrown |-> "TypeError"]
            ELSE With(pop(s1, s1.lastOffset),
                      LAMBDA popped : leaveBox(popped.s, popped.box)))

\* Mutant: every range is added as a stuck range, whatever this.primary is.
addRangeAlwaysStuck(s) ==
  [s EXCEPT !.offsetMap = addStuckRange(@, s.lastOffset)]

\* styleUntil lines 923-927 and 1003-1007
addRange(s) ==
  [s EXCEPT !.offsetMap = IF s.primary THEN addStuckRange(@, s.lastOffset)
                          ELSE addSlippedRange(@, s.lastOffset)]

\* Mutant: the text length is taken off the cursor's offset.
visitTextMovesBack(s, d, next) ==
  LET s1 == [s EXCEPT !.last = next, !.lastOffset = @ - d.nodes[next].textLength]
      bs == s1.boxStack
  IN IF (bs.atBlockStart \/ bs.atFlowStart) /\ empty(bs)
     THEN [s |-> s1, thrown |-> "TypeError"]
     ELSE [s |-> addRange(encounteredTextNode(s1, d.nodes[next].canIgnore)),
           thrown |-> null]

\* styleUntil lines 919-927: the cursor moves to the text node next.
visitText(s, d, next) ==
  LET s1 == [s EXCEPT !.last = next, !.lastOffset = @ + d.nodes[next].textLength]
      bs == s1.boxStack
  IN IF (bs.atBlockStart \/ bs.atFlowStart) /\ empty(bs)
     THEN [s |-> s1, thrown |-> "TypeError"]
     ELSE [s |-> addRange(encounteredTextNode(s1, d.nodes[next].canIgnore)),
           thrown |-> null]

\* styleUntil lines 975-1007: the breaks before the box pushed last, the
\* style cache and the offsets.
styleElement(s, style) ==
  LET top == Len(s.boxStack.stack)
      box == s.boxStack.stack[top]
      blockStartOffset == nearestBlockStartOffset(s.boxStack, box)
  IN IF blockStartOffset = NoBlockStart THEN [s |-> s, thrown |-> "Error"]
     ELSE With(registerForcedBreakOffset(s, box.breakBefore, blockStartOffset, box.flowName),
          LAMBDA s5 :
          With(IF box.beforeBox # <<>>
               THEN registerForcedBreakOffset(
                      s5, getBreakValue(box.beforeBox[1], "after"),
                      IF box.beforeBox[1].atBlockStart THEN blockStartOffset ELSE box.offset,
                      box.flowName)
               ELSE s5,
          LAMBDA s6 :
            [s |-> addRange(Logged(
                     [s6 EXCEPT
                        !.primary = @ /\ displayValue(box.style) # "none",
                        !.styleMap = [o \in (DOMAIN s6.styleMap) \cup {s6.lastOffset} |->
                                        IF o = s6.lastOffset THEN style ELSE s6.styleMap[o]],
                        !.lastOffset = @ + 1],
                     "styleMap", s6.lastOffset)),
             thrown |-> null]))

\* styleUntil lines 946-974: the box of the element next is pushed.
pushElement(s, d, next) ==
  LET style == d.nodes[next].style
      flowName == style.flowInto
      isRoot == next = 1
  IN IF flowName # null
     THEN With(encounteredFlowElement(s, flowName, style, next, s.lastOffset),
               LAMBDA s2 :
                 push([s2 EXCEPT !.primary = flowName \in d.primaryFlows],
                      style, s2.lastOffset, isRoot, Len(s2.flowChunks)))
     ELSE With(push(s, style, s.lastOffset, isRoot, noChunk),
               LAMBDA s3 :
                 LET top == Len(s3.boxStack.stack)
                     pushed == s3.boxStack.stack[top]
                 IN IF next = d.body
                    THEN [s3 EXCEPT !.boxStack.stack[top].breakBefore =
                            resolveEffectiveBreakValue(
                              s3.flowChunks[pushed.flowChunk].breakBefore,
                              pushed.breakBefore)]
                    ELSE s3)

\* Styler.rootStyle as the class initialises it: no writing-mode and no
\* direction.
NoRootStyle == [propName \in {"writingMode", "direction"} |-> null]

\* Styler.postprocessTopStyle(elemStyle, isBody), lines 546-551: the
\* writing-mode and direction entries of this.rootStyle after the call (the
\* background, layout and font-size entries are not part of the record).
postprocessTopStyle(rootStyle, elemStyle, isBody) ==
  [propName \in {"writingMode", "direction"} |->
     IF elemStyle[propName] # null /\ ~(isBody /\ rootStyle[propName] # null)
     THEN elemStyle[propName]
     ELSE rootStyle[propName]]

\* styleUntil lines 919, 929-1007: the cursor moves to the element next.
visitElement(s, d, next) ==
  LET style == d.nodes[next].style
      id == d.nodes[next].id
  IN With(Logged([s EXCEPT
                    !.last = next,
                    !.primaryStack = Append(@, s.primary),
                    !.cascade = Append(@, next),
                    !.idToReach = IF id # null /\ id = @ THEN null ELSE @,
                    !.rootStyle = IF ~s.bodyReached /\ next = d.body
                                     /\ d.nodes[next].parent = 1
                                  THEN postprocessTopStyle(@, style, TRUE)
                                  ELSE @,
                    !.bodyReached = @ \/ (next = d.body /\ d.nodes[next].parent = 1)],
                 "pushElement", next),
          LAMBDA s1 :
            IF style.flowInto = null /\ pushThrows(s1, noChunk)
            THEN [s |-> s1, thrown |-> "TypeError"]
            ELSE With(pushElement(s1, d, next), LAMBDA s4 : styleElement(s4, style)))

\* styleUntil lines 905-914 and 1008-1017: has the lookup window been reached?
reached(s, startOffset, lookup, targetSlippedOffset) ==
  IF startOffset < s.lastOffset
  THEN IF targetSlippedOffset < 0 /\ slippedByFixedThrows(s.offsetMap, startOffset)
       THEN [done |-> TRUE, ret |-> Thrown("TypeError"), target |-> targetSlippedOffset]
       ELSE LET target == IF targetSlippedOffset < 0
                          THEN slippedByFixed(s.offsetMap, startOffset) + lookup
                          ELSE targetSlippedOffset
            IN IF target <= getMaxSlipped(s.offsetMap)
               THEN [done |-> TRUE,
                     ret |-> IF fixedBySlippedThrows(s.offsetMap, target)
                             THEN Thrown("TypeError")
                             ELSE Number(fixedBySlipped(s.offsetMap, target)),
                     target |-> target]
               ELSE [done |-> FALSE, ret |-> NoResult, target |-> target]
  ELSE [done |-> FALSE, ret |-> NoResult, target |-> targetSlippedOffset]

RECURSIVE styleLoop(_, _, _, _, _)
RECURSIVE climb(_, _, _, _, _)

\* styleUntil lines 919-1018: visit next, then return or go round the loop.
visit(s, d, next, startOffset, lookup, target) ==
  IF d.nodes[next].nodeType # ELEMENT_NODE
  THEN With(visitText(s, d, next),
            LAMBDA t :
              IF t.thrown # null THEN [s |-> t.s, ret |-> Thrown(t.thrown)]
              ELSE styleLoop(t.s, d, startOffset, lookup, target))
  ELSE With(visitElement(s, d, next),
            LAMBDA e :
              IF e.thrown # null THEN [s |-> e.s, ret |-> Thrown(e.thrown)]
              ELSE With(reached(e.s, startOffset, lookup, target),
                        LAMBDA r :
                          IF r.done THEN [s |-> e.s, ret |-> r.ret]
                          ELSE styleLoop(e.s, d, startOffset, lookup, r.target)))

\* styleUntil lines 866-868: one round of the outer loop.
styleLoop(s, d, startOffset, lookup, target) ==
  LET next == firstChild(d, s.last)
  IN IF next = nullNode THEN climb(s, d, startOffset, lookup, target)
     ELSE visit(s, d, next, startOffset, lookup, target)

\* Mutant: back at the root the cursor is left on the root, not set to null.
climbKeepsCursor(s, d, startOffset, lookup, target) ==
  IF s.last = nullNode THEN [s |-> s, ret |-> Thrown("TypeError")]
  ELSE With(IF nodeType(d, s.last) = ELEMENT_NODE
            THEN leaveElement(s)
            ELSE [s |-> s, thrown |-> null],
            LAMBDA l :
              LET next == nextSibling(d, l.s.last)
                  up == [l.s EXCEPT !.last = parentNode(d, l.s.last)]
              IN IF l.thrown # null THEN [s |-> l.s, ret |-> Thrown(l.thrown)]
                 ELSE IF next # nullNode
                      THEN visit(l.s, d, next, startOffset, lookup, target)
                 ELSE IF up.last = 1
                      THEN With(reached(up, startOffset, lookup, target),
                                LAMBDA r :
                                  [s |-> up,
                                   ret |-> IF r.done THEN r.ret ELSE PositiveInfinity])
                 ELSE climb(up, d, startOffset, lookup, target))

\* styleUntil lines 869-917: the inner loop, leaving this.last and moving to
\* its next sibling or up to its parent.
climb(s, d, startOffset, lookup, target) ==
  IF s.last = nullNode THEN [s |-> s, ret |-> Thrown("TypeError")]
  ELSE With(IF nodeType(d, s.last) = ELEMENT_NODE
            THEN leaveElement(s)
            ELSE [s |-> s, thrown |-> null],
            LAMBDA l :
              LET next == nextSibling(d, l.s.last)
                  up == [l.s EXCEPT !.last = parentNode(d, l.s.last)]
              IN IF l.thrown # null THEN [s |-> l.s, ret |-> Thrown(l.thrown)]
                 ELSE IF next # nullNode
                      THEN visit(l.s, d, next, startOffset, lookup, target)
                 ELSE IF up.last = 1
                      THEN With(reached(up, startOffset, lookup, target),
                                LAMBDA r :
                                  [s |-> [up EXCEPT !.last = nullNode],
                                   ret |-> IF r.done THEN r.ret ELSE PositiveInfinity])
                 ELSE climb(up, d, startOffset, lookup, target))

\* Styler.styleUntil(startOffset, lookup)
styleUntil(s, d, startOffset, lookup) ==
  LET inside == startOffset <= s.lastOffset
      throws == inside /\ slippedByFixedThrows(s.offsetMap, startOffset)
      target == IF inside /\ ~throws
                THEN slippedByFixed(s.offsetMap, startOffset) + lookup
                ELSE -1
  IN IF throws THEN [s |-> s, ret |-> Thrown("TypeError")]
     ELSE IF inside /\ target < getMaxSlipped(s.offsetMap)
          THEN [s |-> s,
                ret |-> IF fixedBySlippedThrows(s.offsetMap, target)
                        THEN Thrown("TypeError")
                        ELSE Number(fixedBySlipped(s.offsetMap, target))]
     ELSE IF s.last = nullNode THEN [s |-> s, ret |-> PositiveInfinity]
     ELSE styleLoop(s, d, startOffset, lookup, target)

\* Styler.getStyle(element, deep): ret is the key offset of the style
\* returned, tagged "undefined" when styleMap has no such entry.
getStyle(s, d, element, deep) ==
  LET key == getElementOffset(d, element)
      offset == IF deep THEN getNodeOffset(d, element, TRUE) ELSE key
  IN With(IF s.lastOffset <= offset THEN styleUntil(s, d, offset, 0)
          ELSE [s |-> s, ret |-> NoResult],
          LAMBDA r :
            IF r.ret.tag \in {"TypeError", "Error"} THEN r
            ELSE [s |-> r.s,
                  ret |-> [tag |-> IF key \in DOMAIN r.s.styleMap THEN "style"
                                   ELSE "undefined",
                           value |-> key]])

\* Mutant: the walk does not go on to the next sibling.
RECURSIVE followingSkipsSiblings(_, _)
followingSkipsSiblings(d, node) ==
  IF node = nullNode THEN [next |-> nullNode, stop |-> FALSE, thrown |-> "TypeError"]
  ELSE LET up == parentNode(d, node)
       IN IF up = 1 THEN [next |-> nullNode, stop |-> TRUE, thrown |-> null]
          ELSE followingSkipsSiblings(d, up)

\* replayFlowElementsFromOffset lines 705-718: the node after node in
\* document order; stop when the walk comes back up to the root.
RECURSIVE following(_, _)
following(d, node) ==
  IF node = nullNode THEN [next |-> nullNode, stop |-> FALSE, thrown |-> "TypeError"]
  ELSE LET next == nextSibling(d, node)
           up == parentNode(d, node)
       IN IF next # nullNode THEN [next |-> next, stop |-> FALSE, thrown |-> null]
          ELSE IF up = 1 THEN [next |-> nullNode, stop |-> TRUE, thrown |-> null]
          ELSE following(d, up)

\* replayFlowElementsFromOffset lines 682-719
RECURSIVE replayLoop(_, _, _, _)
replayLoop(s, d, node, nodeOffset) ==
  LET isElement == d.nodes[node].nodeType = ELEMENT_NODE
      after == IF isElement THEN nodeOffset + 1 ELSE nodeOffset + d.nodes[node].textLength
      child == firstChild(d, node)
      f == IF child # nullNode THEN [next |-> child, stop |-> FALSE, thrown |-> null]
           ELSE following(d, node)
  IN With(IF isElement THEN getStyle(s, d, node, FALSE) ELSE [s |-> s, ret |-> NoResult],
          LAMBDA g :
            IF g.ret.tag \in {"TypeError", "Error"} THEN g
            ELSE IF g.ret.tag = "undefined" THEN [s |-> g.s, ret |-> Thrown("TypeError")]
            ELSE With(IF isElement /\ g.s.styleMap[g.ret.value].flowInto # null
                      THEN encounteredFlowElement(
                             g.s, g.s.styleMap[g.ret.value].flowInto,
                             g.s.styleMap[g.ret.value], node, nodeOffset)
                      ELSE g.s,
                      LAMBDA s1 :
                        IF after >= s1.lastOffset \/ f.stop THEN [s |-> s1, ret |-> NoResult]
                        ELSE IF f.thrown # null THEN [s |-> s1, ret |-> Thrown(f.thrown)]
                        ELSE replayLoop(s1, d, f.next, after)))

\* Styler.replayFlowElementsFromOffset(offset)
replayFlowElementsFromOffset(s, d, offset) ==
  LET rootOffset == getElementOffset(d, 1)
      node == getNodeByOffset(d, offset)
      nodeOffset == getNodeOffset(d, node, FALSE)
  IN IF offset >= s.lastOffset THEN [s |-> s, ret |-> NoResult]
     ELSE With(IF offset < rootOffset THEN getStyle(s, d, 1, FALSE)
               ELSE [s |-> s, ret |-> NoResult],
          LAMBDA g :
            IF g.ret.tag \in {"TypeError", "Error"} THEN g
            ELSE With(IF offset < rootOffset
                      THEN LET rootStyle == g.s.styleMap[rootOffset]
                               flowNameStr == IF rootStyle.flowInto # null
                                              THEN rootStyle.flowInto ELSE "body"
                           IN With(encounteredFlowElement(g.s, flowNameStr, rootStyle,
                                                          1, rootOffset),
                                   LAMBDA s1 :
                                     IF empty(s1.boxStack)
                                     THEN push(s1, rootStyle, rootOffset, TRUE,
                                               Len(s1.flowChunks))
                                     ELSE s1)
                      ELSE s,
                      LAMBDA s2 :
                        IF nodeOffset >= s2.lastOffset THEN [s |-> s2, ret |-> NoResult]
                        ELSE replayLoop(s2, d, node, nodeOffset)))

\* resetFlowChunkStream lines 724-729: the chunks from index i on are handed
\* to the listener.
RECURSIVE streamFlowChunks(_, _)
streamFlowChunks(s, i) ==
  IF i > Len(s.flowChunks) THEN s
  ELSE streamFlowChunks(
         notifyFlowListener(s, i, s.flows[s.flowChunks[i].flowName]), i + 1)

\* Mutant: the first chunk is not handed to the new listener.
resetFlowChunkStreamSkipsFirst(s, flowListener) ==
  [s |-> streamFlowChunks(
           Logged([s EXCEPT !.flowListener = flowListener], "resetFlowChunkStream", 0), 2),
   ret |-> NoResult]

\* Styler.resetFlowChunkStream(flowListener)
resetFlowChunkStream(s, flowListener) ==
  [s |-> streamFlowChunks(
           Logged([s EXCEPT !.flowListener = flowListener], "resetFlowChunkStream", 0), 1),
   ret |-> NoResult]

\* The step by which styleUntilFlowIsReached and styleUntilIdIsReached move
\* the start offset forward.
OffsetStep == 5000

\* styleUntilFlowIsReached lines 735-743
RECURSIVE flowLoop(_, _, _)
flowLoop(s, d, offset) ==
  IF s.flowToReach = null THEN [s |-> s, ret |-> NoResult]
  ELSE With(styleUntil(s, d, offset + OffsetStep, 0),
            LAMBDA r :
              IF r.ret.tag \in {"TypeError", "Error"} THEN r
              ELSE IF r.ret.tag = "Infinity" THEN [s |-> r.s, ret |-> NoResult]
              ELSE flowLoop(r.s, d, offset + OffsetStep))

\* Styler.styleUntilFlowIsReached(flowName)
styleUntilFlowIsReached(s, d, flowName) ==
  flowLoop([s EXCEPT !.flowToReach = flowName], d, 0)

\* styleUntilIdIsReached lines 752-760
RECURSIVE idLoop(_, _, _)
idLoop(s, d, offset) ==
  IF s.idToReach \in {null, ""} THEN [s |-> s, ret |-> NoResult]
  ELSE With(styleUntil(s, d, offset + OffsetStep, 0),
            LAMBDA r :
              IF r.ret.tag \in {"TypeError", "Error"} THEN r
              ELSE IF r.ret.tag = "Infinity" THEN [s |-> r.s, ret |-> NoResult]
              ELSE idLoop(r.s, d, offset + OffsetStep))

\* Styler.styleUntilIdIsReached(id)
styleUntilIdIsReached(s, d, id) ==
  IF id \in {null, ""} THEN [s |-> s, ret |-> NoResult]
  ELSE With(idLoop([s EXCEPT !.idToReach = id], d, 0),
            LAMBDA r :
              IF r.ret.tag \in {"TypeError", "Error"} THEN r
              ELSE [s |-> [r.s EXCEPT !.idToReach = null], ret |-> NoResult])

\* The result of getTopContainerStyle: the root style object of the Styler.
RootStyleOf(s) == [tag |-> "rootStyle", value |-> 0, rootStyle |-> s.rootStyle]

\* getTopContainerStyle lines 618-624: until the body element has been
\* styled, styleUntil is called with the start offset moved forward by
\* OffsetStep; the loop ends when a call returns the sentinel.
RECURSIVE topLoop(_, _, _)
topLoop(s, d, offset) ==
  IF s.bodyReached THEN [s |-> s, ret |-> RootStyleOf(s)]
  ELSE With(styleUntil(s, d, offset + OffsetStep, 0),
            LAMBDA r :
              IF r.ret.tag \in {"TypeError", "Error"} THEN r
              ELSE IF r.ret.tag = "Infinity" THEN [s |-> r.s, ret |-> RootStyleOf(r.s)]
              ELSE topLoop(r.s, d, offset + OffsetStep))

\* Styler.getTopContainerStyle()
getTopContainerStyle(s, d) == topLoop(s, d, 0)

\* new Styler(xmldoc, ...): the fields after the constructor has run.
newStyler(d) ==
  LET rootOffset == getElementOffset(d, 1)
      style == d.nodes[1].style
      s == [last |-> 1,
            lastOffset |-> rootOffset + 1,
            offsetMap |-> addStuckRange(<<>>, rootOffset),
            primary |-> TRUE,
            primaryStack |-> <<TRUE>>,
            styleMap |-> [o \in {rootOffset} |-> style],
            flows |-> [f \in {} |-> f],
            flowChunks |-> <<>>,
            flowListener |-> null,
            flowToReach |-> null,
            idToReach |-> null,
            breakBeforeValues |-> [o \in {} |-> null],
            boxStack |-> newBoxStack,
            bodyReached |-> ~d.xhtml,
            rootStyle |-> postprocessTopStyle(NoRootStyle, style, FALSE),
            cascade |-> <<1>>,
            log |-> <<[op |-> "pushElement", arg |-> 1],
                      [op |-> "styleMap", arg |-> rootOffset]>>]
  IN replayFlowElementsFromOffset(s, d, -1).s

StylerFields ==
  {"last", "lastOffset", "offsetMap", "primary", "primaryStack", "styleMap", "flows",
   "flowChunks", "flowListener", "flowToReach", "idToReach", "breakBeforeValues",
   "boxStack", "bodyReached", "cascade", "rootStyle"}

\* The Styler record with and without the history log.
WithLog(st, lg) == [f \in StylerFields \cup {"log"} |-> IF f = "log" THEN lg ELSE st[f]]
WithoutLog(s) == [f \in StylerFields |-> s[f]]

(***************************************************************************)
(* Documents                                                               *)
(***************************************************************************)
NoStyle == ElementStyle(null, null, null, null, <<>>, <<>>)

ElementNode(parent, style, id) ==
  [nodeType |-> ELEMENT_NODE, parent |-> parent, textLength |-> 0,
   canIgnore |-> FALSE, style |-> style, id |-> id]

TextNode(parent, textLength, canIgnore) ==
  [nodeType |-> TEXT_NODE, parent |-> parent, textLength |-> textLength,
   canIgnore |-> canIgnore, style |-> NoStyle, id |-> null]

\* The elements that are still open after the nodes of t, in which the next
\* node in document order can be placed.
OpenElements(t) ==
  {a \in 1..Len(t) : t[a].nodeType = ELEMENT_NODE
                     /\ isAncestorOrSelf([nodes |-> t], a, Len(t))}

\* All trees of exactly n nodes, in document order, whose elements take
\* their style from styles and whose text nodes are from texts.
RECURSIVE Trees(_, _, _)
Trees(n, styles, texts) ==
  IF n = 1 THEN {<<ElementNode(DocumentNode, st, null)>> : st \in styles}
  ELSE UNION {
         {Append(t, ElementNode(p, st, null)) : p \in OpenElements(t), st \in styles}
         \cup {Append(t, TextNode(p, x.textLength, x.canIgnore)) :
                 p \in OpenElements(t), x \in texts}
         : t \in Trees(n - 1, styles, texts)}

Elements(d) == {n \in NodeIds(d) : d.nodes[n].nodeType = ELEMENT_NODE}

(***************************************************************************)
(* Bounds                                                                  *)
(***************************************************************************)
MaxNodes == 3        \* nodes of a document
MaxLookup == 1       \* lookup window of styleUntil
MaxFixed == 4        \* arguments of addStuckRange / addSlippedRange
MaxChunks == 3       \* flow chunks beyond which no replay is started
MaxCalls == 5        \* calls made on a free-standing SlipMap
MaxResets == 1       \* calls of resetFlowChunkStream

TraversalStyles ==
  {ElementStyle("block", null, null, null, <<>>, <<>>),
   ElementStyle("block", "footnote", null, null, <<>>, <<>>),
   ElementStyle("none", null, null, null, <<>>, <<>>)}

TraversalTexts == {[textLength |-> 2, canIgnore |-> FALSE]}

Docs ==
  {[nodes |-> t, body |-> nullNode, xhtml |-> FALSE, primaryFlows |-> {"body"}] :
     t \in UNION {Trees(n, TraversalStyles, TraversalTexts) : n \in 1..MaxNodes}}

SeekStyles ==
  {ElementStyle("block", null, null, null, <<>>, <<>>),
   ElementStyle("block", "footnote", null, null, <<>>, <<>>)}

SeekDocs ==
  {[nodes |-> t, body |-> nullNode, xhtml |-> FALSE, primaryFlows |-> {"body"}] :
     t \in UNION {Trees(n, SeekStyles, TraversalTexts) : n \in 1..MaxNodes}}

\* Elements assigned to the primary flow "body" and to the flow "footnote",
\* and block and inline elements that stay in the flow of their parent.
FlowStyles ==
  {ElementStyle("block", null, null, null, <<>>, <<>>),
   ElementStyle("inline", null, null, null, <<>>, <<>>),
   ElementStyle("block", "body", null, null, <<>>, <<>>),
   ElementStyle("block", "footnote", null, null, <<>>, <<>>)}

FlowDocs ==
  {[nodes |-> t, body |-> nullNode, xhtml |-> FALSE, primaryFlows |-> {"body"}] :
     t \in UNION {Trees(n, FlowStyles, TraversalTexts) : n \in 1..MaxNodes}}

\* Elements with break values: one with a ::before pseudo-element that has
\* content and break-before: page, one with break-before: avoid and
\* break-after: page, one with break-before: page.
BreakStyles ==
  {ElementStyle("block", null, null, null, <<>>, <<>>),
   ElementStyle("block", null, null, null,
                <<PseudoStyle("block", "text", "page", null)>>, <<>>),
   ElementStyle("block", null, "avoid", "page", <<>>, <<>>),
   ElementStyle("block", null, "page", null, <<>>, <<>>)}

BreakDocs ==
  {[nodes |-> t, body |-> nullNode, xhtml |-> FALSE, primaryFlows |-> {"body"}] :
     t \in UNION {Trees(n, BreakStyles, TraversalTexts) : n \in 1..MaxNodes}}

\* The tree t with the id "a" on its second node when that is an element.
WithId(t) ==
  [i \in 1..Len(t) |->
     IF i = 2 /\ t[i].nodeType = ELEMENT_NODE THEN [t[i] EXCEPT !.id = "a"] ELSE t[i]]

OpsDocs ==
  {[nodes |-> WithId(t), body |-> nullNode, xhtml |-> FALSE, primaryFlows |-> {"body"}] :
     t \in UNION {Trees(n, SeekStyles, TraversalTexts) : n \in 1..MaxNodes}}

FlowNames == {"body", "footnote", "sidebar"}
Ids == {"a", "b", ""}

\* What the last call returned: rootStyle is the style object a call of
\* getTopContainerStyle returned and NoRootStyle after any other call.
NoCall == [op |-> "none", tag |-> "none", value |-> 0, rootStyle |-> NoRootStyle]
Result(op, r) ==
  [op |-> op, tag |-> r.tag, value |-> r.value,
   rootStyle |-> IF r.tag = "rootStyle" THEN r.rootStyle ELSE NoRootStyle]

BreakIdle == first = null /\ second = null /\ resolved = null
SlipIdle == map = <<>> /\ registered = {} /\ lastArg = 0
StylerIdle == doc = <<>> /\ styler = <<>> /\ ret = NoCall /\ log = <<>>
              /\ lastStart = -1 /\ repeated = FALSE

(***************************************************************************)
(* BreakSpec: resolveEffectiveBreakValue called on two break values.       *)
(***************************************************************************)
BreakInit ==
  /\ first \in BreakValues /\ second \in BreakValues /\ resolved = "unresolved"
  /\ SlipIdle /\ StylerIdle

Resolve ==
  /\ resolved = "unresolved"
  /\ resolved' = resolveEffectiveBreakValue(first, second)
  /\ UNCHANGED <<first, second, map, registered, lastArg,
                 doc, styler, ret, log, lastStart, repeated>>

BreakSpec == BreakInit /\ [][Resolve]_vars

(***************************************************************************)
(* SlipSpec: a SlipMap built by addStuckRange / addSlippedRange calls      *)
(* whose arguments never decrease.                                         *)
(***************************************************************************)
SlipInit == SlipIdle /\ BreakIdle /\ StylerIdle

\* registered keeps, for each addStuckRange(endFixed), the argument and the
\* end of the map before the call.
AddStuckRange(endFixed) ==
  /\ map' = addStuckRange(map, endFixed)
  /\ registered' = registered \cup
       {[fixed |-> endFixed, maxFixed |-> getMaxFixed(map)]}
  /\ lastArg' = endFixed
  /\ UNCHANGED <<first, second, resolved, doc, styler, ret, log, lastStart, repeated>>

AddSlippedRange(endFixed) ==
  /\ map' = addSlippedRange(map, endFixed)
  /\ lastArg' = endFixed
  /\ UNCHANGED <<first, second, resolved, registered,
                 doc, styler, ret, log, lastStart, repeated>>

SlipNext ==
  \/ \E endFixed \in lastArg..MaxFixed : AddStuckRange(endFixed)
  \/ \E endFixed \in lastArg..MaxFixed : AddSlippedRange(endFixed)

SlipSpec == SlipInit /\ [][SlipNext]_vars

(***************************************************************************)
(* StuckFirstSpec: a SlipMap whose first call is addStuckRange, as the     *)
(* Styler's is, followed by at most MaxCalls calls with non-decreasing     *)
(* arguments. log keeps each call with its argument and the getMaxFixed()  *)
(* it found.                                                               *)
(***************************************************************************)
SlipCall(op, endFixed) ==
  [op |-> op, arg |-> endFixed, maxFixed |-> getMaxFixed(map)]

StuckCall(endFixed) ==
  /\ Len(log) < MaxCalls
  /\ map' = addStuckRange(map, endFixed)
  /\ log' = Append(log, SlipCall("addStuckRange", endFixed))
  /\ lastArg' = endFixed
  /\ UNCHANGED <<first, second, resolved, registered, doc, styler, ret, lastStart, repeated>>

SlippedCall(endFixed) ==
  /\ log # <<>>
  /\ Len(log) < MaxCalls
  /\ map' = addSlippedRange(map, endFixed)
  /\ log' = Append(log, SlipCall("addSlippedRange", endFixed))
  /\ lastArg' = endFixed
  /\ UNCHANGED <<first, second, resolved, registered, doc, styler, ret, lastStart, repeated>>

StuckFirstNext ==
  \/ \E endFixed \in lastArg..MaxFixed : StuckCall(endFixed)
  \/ \E endFixed \in lastArg..MaxFixed : SlippedCall(endFixed)

StuckFirstSpec == SlipInit /\ [][StuckFirstNext]_vars

(***************************************************************************)
(* Spec: a Styler over a document, driven by styleUntil and getStyle.      *)
(***************************************************************************)
\* The state once the Styler has been constructed over a document of docs.
Constructed(docs) ==
  /\ BreakIdle /\ SlipIdle
  /\ doc \in docs
  /\ styler = WithoutLog(newStyler(doc))
  /\ log = newStyler(doc).log
  /\ ret = NoCall
  /\ lastStart = -1
  /\ repeated = FALSE

Init == Constructed(Docs)

\* The effect of one Styler call with result r on the Styler's state.
Called(op, call) ==
  /\ \E r \in {call} :
       /\ styler' = WithoutLog(r.s)
       /\ log' = r.s.log
       /\ ret' = Result(op, r.ret)
  /\ UNCHANGED <<first, second, resolved, map, registered, lastArg, doc>>

StyleUntil(startOffset, lookup) ==
  /\ Called("styleUntil", styleUntil(WithLog(styler, log), doc, startOffset, lookup))
  /\ UNCHANGED <<lastStart, repeated>>

GetStyle(element, deep) ==
  /\ Called(IF deep THEN "getStyleDeep" ELSE "getStyle",
            getStyle(WithLog(styler, log), doc, element, deep))
  /\ UNCHANGED <<lastStart, repeated>>

StartOffsets == 0..(totalLength(doc) + 1)

Next ==
  \/ \E startOffset \in StartOffsets, lookup \in 0..MaxLookup :
       StyleUntil(startOffset, lookup)
  \/ \E element \in Elements(doc), deep \in BOOLEAN : GetStyle(element, deep)

Spec == Init /\ [][Next]_vars

(***************************************************************************)
(* FlowSpec: a Styler over documents whose elements are assigned to the    *)
(* flows "body" and "footnote", walked by styleUntil and getStyle.         *)
(***************************************************************************)
FlowInit == Constructed(FlowDocs)

\* styleUntil without a lookup window and getStyle without deep.
WalkNext ==
  \/ \E startOffset \in StartOffsets : StyleUntil(startOffset, 0)
  \/ \E element \in Elements(doc) : GetStyle(element, FALSE)

FlowSpec == FlowInit /\ [][WalkNext]_vars

(***************************************************************************)
(* PropagationSpec: the same walk over documents whose elements and       *)
(* pseudo-elements have break-before and break-after values.               *)
(***************************************************************************)
PropagationInit == Constructed(BreakDocs)

PropagationSpec == PropagationInit /\ [][WalkNext]_vars

(***************************************************************************)
(* NestingSpec: the same walk over the documents of PropagationSpec and    *)
(* over documents of five elements: the root holds an element with a child *)
(* and, after it, an element with a ::before pseudo-element that has       *)
(* content and break-before: page, whose child has break-before: avoid.    *)
(* The first element stays in the root's flow or goes to the flow          *)
(* "footnote"; its child stays in its flow, with or without break-before:  *)
(* page, or opens a chunk of the flow "body" with break-before: page.      *)
(***************************************************************************)
NestedDocs ==
  {[nodes |-> <<ElementNode(DocumentNode,
                            ElementStyle("block", null, null, null, <<>>, <<>>), null),
                ElementNode(1, ElementStyle("block", flowInto, null, null, <<>>, <<>>), null),
                ElementNode(2, nested, null),
                ElementNode(1, ElementStyle("block", null, null, null,
                                            <<PseudoStyle("block", "text", "page", null)>>,
                                            <<>>), null),
                ElementNode(4, ElementStyle("block", null, "avoid", null, <<>>, <<>>), null)>>,
    body |-> nullNode, xhtml |-> FALSE, primaryFlows |-> {"body"}] :
     flowInto \in {null, "footnote"},
     nested \in {ElementStyle("block", null, null, null, <<>>, <<>>),
                 ElementStyle("block", null, "page", null, <<>>, <<>>),
                 ElementStyle("block", "body", "page", null, <<>>, <<>>)}}

NestingSpec == Constructed(BreakDocs \cup NestedDocs) /\ [][WalkNext]_vars

(***************************************************************************)
(* BoxSpec: the same walk over documents of elements with and without a    *)
(* box, block and inline, with a ::before pseudo-element, and assigned to  *)
(* the flow "footnote".                                                    *)
(***************************************************************************)
BoxDocs ==
  {[nodes |-> t, body |-> nullNode, xhtml |-> FALSE, primaryFlows |-> {"body"}] :
     t \in UNION {Trees(n, {ElementStyle("block", null, null, null, <<>>, <<>>),
                            ElementStyle("inline", null, null, null, <<>>, <<>>),
                            ElementStyle("none", null, null, null, <<>>, <<>>),
                            ElementStyle("block", "footnote", null, null, <<>>, <<>>),
                            ElementStyle("block", null, null, null,
                                         <<PseudoStyle("block", "text", null, null)>>,
                                         <<>>)},
                        {}) : n \in 1..MaxNodes}}

BoxSpec == Constructed(BoxDocs) /\ [][WalkNext]_vars

(***************************************************************************)
(* AfterSpec: the same walk over documents of block elements, elements     *)
(* without a box and elements with an ::after pseudo-element that has      *)
(* content and break-before: page.                                         *)
(***************************************************************************)
AfterDocs ==
  {[nodes |-> t, body |-> nullNode, xhtml |-> FALSE, primaryFlows |-> {"body"}] :
     t \in UNION {Trees(n, {ElementStyle("block", null, null, null, <<>>, <<>>),
                            ElementStyle("none", null, null, null, <<>>, <<>>),
                            ElementStyle("block", null, null, null, <<>>,
                                         <<PseudoStyle("block", "text", "page", null)>>)},
                        TraversalTexts) : n \in 1..MaxNodes}}

\* The walk of WalkNext; a Styler that has thrown the fatal Error is not
\* called again.
AfterNext ==
  \/ \E startOffset \in StartOffsets : ret.tag # "Error" /\ StyleUntil(startOffset, 0)
  \/ \E element \in Elements(doc) : ret.tag # "Error" /\ GetStyle(element, FALSE)

AfterSpec == Constructed(AfterDocs) /\ [][AfterNext]_vars

(***************************************************************************)
(* StartSpec: the walk of AfterSpec over documents of elements that are    *)
(* plain blocks, blocks with break-before: page, blocks with an ::after    *)
(* pseudo-element that has content and break-before: avoid, and blocks     *)
(* with both.                                                              *)
(***************************************************************************)
StartDocs ==
  {[nodes |-> t, body |-> nullNode, xhtml |-> FALSE, primaryFlows |-> {"body"}] :
     t \in UNION {Trees(n, {ElementStyle("block", null, null, null, <<>>, <<>>),
                            ElementStyle("block", null, "page", null, <<>>, <<>>),
                            ElementStyle("block", null, null, null, <<>>,
                                         <<PseudoStyle("block", "text", "avoid", null)>>),
                            ElementStyle("block", null, "page", null, <<>>,
                                         <<PseudoStyle("block", "text", "avoid", null)>>)},
                        {}) : n \in 1..MaxNodes}}

StartSpec == Constructed(StartDocs) /\ [][AfterNext]_vars

(***************************************************************************)
(* LeaveSpec: the walk of AfterSpec over documents of elements and text    *)
(* whose elements are plain blocks, blocks with break-after: right and an  *)
(* ::after pseudo-element with break-after: left, blocks with break-after: *)
(* column and an ::after pseudo-element with break-after: page, and blocks *)
(* with break-after: avoid.                                                *)
(***************************************************************************)
LeaveDocs ==
  {[nodes |-> t, body |-> nullNode, xhtml |-> FALSE, primaryFlows |-> {"body"}] :
     t \in UNION {Trees(n, {ElementStyle("block", null, null, null, <<>>, <<>>),
                            ElementStyle("block", null, null, "right", <<>>,
                                         <<PseudoStyle("block", "text", null, "left")>>),
                            ElementStyle("block", null, null, "column", <<>>,
                                         <<PseudoStyle("block", "text", null, "page")>>),
                            ElementStyle("block", null, null, "avoid", <<>>, <<>>)},
                        TraversalTexts) : n \in 1..MaxNodes}}

LeaveSpec == Constructed(LeaveDocs) /\ [][AfterNext]_vars

(***************************************************************************)
(* TopSpec: the same walk, and getTopContainerStyle, over XHTML documents  *)
(* of block elements with and without writing-mode and direction           *)
(* declarations; the first child of the root is the body element.          *)
(***************************************************************************)
TopStyles ==
  {[ElementStyle("block", null, null, null, <<>>, <<>>)
      EXCEPT !.writingMode = w[1], !.direction = w[2]] :
     w \in {<<null, null>>, <<"vertical-rl", null>>,
            <<"horizontal-tb", "rtl">>, <<null, "rtl">>}}

TopDocs ==
  {[nodes |-> t, body |-> IF Len(t) >= 2 THEN 2 ELSE nullNode, xhtml |-> TRUE,
    primaryFlows |-> {"body"}] :
     t \in UNION {Trees(n, TopStyles, {}) : n \in 1..MaxNodes}}

GetTopContainerStyle ==
  /\ Called("getTopContainerStyle", getTopContainerStyle(WithLog(styler, log), doc))
  /\ UNCHANGED <<lastStart, repeated>>

TopNext ==
  \/ WalkNext
  \/ GetTopContainerStyle

TopSpec == Constructed(TopDocs) /\ [][TopNext]_vars

(***************************************************************************)
(* ChunkSpec: the same walk over documents of up to MaxNodes + 1 elements, *)
(* each a block with break-before: page that stays in its parent's flow,   *)
(* opens a chunk of the flow "footnote", or opens a chunk of the flow      *)
(* "body" with break-before: page; the root element is of the first kind.  *)
(***************************************************************************)
ChunkDocs ==
  {[nodes |-> t, body |-> nullNode, xhtml |-> FALSE, primaryFlows |-> {"body"}] :
     t \in {u \in UNION {Trees(n, {ElementStyle("block", null, "page", null, <<>>, <<>>),
                                   ElementStyle("block", "footnote", null, null, <<>>, <<>>),
                                   ElementStyle("block", "body", "page", null, <<>>, <<>>)},
                               {}) : n \in 1..(MaxNodes + 1)} :
             u[1].style.flowInto = null}}

ChunkSpec == Constructed(ChunkDocs) /\ [][WalkNext]_vars

(***************************************************************************)
(* SeekSpec: styleUntil called with strictly increasing startOffset, with  *)
(* getStyle calls in between.                                              *)
(***************************************************************************)
SeekStyleUntil(startOffset, lookup) ==
  /\ startOffset > lastStart
  /\ Called("styleUntil", styleUntil(WithLog(styler, log), doc, startOffset, lookup))
  /\ lastStart' = startOffset
  /\ repeated' = (lastStart >= 0)

Seek == \E startOffset \in StartOffsets, lookup \in 0..MaxLookup :
          SeekStyleUntil(startOffset, lookup)

SeekNext ==
  \/ Seek
  \/ \E element \in Elements(doc), deep \in BOOLEAN : GetStyle(element, deep)

SeekInit == Constructed(SeekDocs)

SeekSpec == SeekInit /\ [][SeekNext]_vars /\ WF_vars(Seek)

(***************************************************************************)
(* OpsSpec: a Styler driven by all of its operations, with a flow listener *)
(* attached by resetFlowChunkStream.                                       *)
(***************************************************************************)
StyleUntilFlowIsReached(flowName) ==
  /\ Called("styleUntilFlowIsReached",
            styleUntilFlowIsReached(WithLog(styler, log), doc, flowName))
  /\ UNCHANGED <<lastStart, repeated>>

StyleUntilIdIsReached(id) ==
  /\ Called("styleUntilIdIsReached",
            styleUntilIdIsReached(WithLog(styler, log), doc, id))
  /\ UNCHANGED <<lastStart, repeated>>

ReplayFlowElementsFromOffset(offset) ==
  /\ Len(styler.flowChunks) < MaxChunks
  /\ Called("replayFlowElementsFromOffset",
            replayFlowElementsFromOffset(WithLog(styler, log), doc, offset))
  /\ UNCHANGED <<lastStart, repeated>>

ResetFlowChunkStream ==
  /\ Cardinality({i \in 1..Len(log) : log[i].op = "resetFlowChunkStream"}) < MaxResets
  /\ Called("resetFlowChunkStream",
            resetFlowChunkStream(WithLog(styler, log), "listener"))
  /\ UNCHANGED <<lastStart, repeated>>

OpsNext ==
  \/ \E startOffset \in StartOffsets, lookup \in 0..MaxLookup :
       StyleUntil(startOffset, lookup)
  \/ \E element \in Elements(doc), deep \in BOOLEAN : GetStyle(element, deep)
  \/ \E flowName \in FlowNames : StyleUntilFlowIsReached(flowName)
  \/ \E id \in Ids : StyleUntilIdIsReached(id)
  \/ \E offset \in -1..totalLength(doc) : ReplayFlowElementsFromOffset(offset)
  \/ ResetFlowChunkStream
  \/ GetTopContainerStyle

OpsInit == Constructed(OpsDocs)

OpsSpec == OpsInit /\ [][OpsNext]_vars

(***************************************************************************)
(* Properties of SlipMap (SlipSpec)                                        *)
(***************************************************************************)
\* fixedBySlipped(slippedByFixed(fixed)) on the current map returns fixed.
RoundTrips(fixed) ==
  /\ ~slippedByFixedThrows(map, fixed)
  /\ ~fixedBySlippedThrows(map, slippedByFixed(map, fixed))
  /\ fixedBySlipped(map, slippedByFixed(map, fixed)) = fixed

\* C1 as stated: on a map built with non-decreasing arguments, every offset
\* passed to addStuckRange satisfies fixedBySlipped(slippedByFixed(f)) = f.
C1_Original == \A r \in registered : RoundTrips(r.fixed)

\* f is the end of a range of the current map that has a slipped part.
EndsSlippedPart(f) ==
  \E i \in 1..Len(map) : map[i].endStuckFixed < map[i].endFixed /\ map[i].endFixed = f

\* C1 amended: every offset f passed to addStuckRange that is not the end of
\* a range with a slipped part satisfies fixedBySlipped(slippedByFixed(f)) = f;
\* for an f that is such an end the round trip returns a smaller offset that
\* has the same slipped offset.
C1_RoundTrip ==
  \A r \in registered :
    IF EndsSlippedPart(r.fixed)
    THEN /\ ~slippedByFixedThrows(map, r.fixed)
         /\ ~fixedBySlippedThrows(map, slippedByFixed(map, r.fixed))
         /\ LET g == fixedBySlipped(map, slippedByFixed(map, r.fixed))
            IN /\ g < r.fixed
               /\ ~slippedByFixedThrows(map, g)
               /\ slippedByFixed(map, g) = slippedByFixed(map, r.fixed)
    ELSE RoundTrips(r.fixed)

C1_Witness ==
  /\ Len(map) >= 2
  /\ map[1].endFixed > map[1].endStuckFixed
  /\ \E r \in registered :
       r.fixed > r.maxFixed /\ r.maxFixed > 0 /\ r.fixed < getMaxFixed(map)
         /\ RoundTrips(r.fixed)

\* C2: slippedByFixed is monotone: on a map built with non-decreasing
\* arguments, f1 <= f2 <= getMaxFixed() implies
\* slippedByFixed(f1) <= slippedByFixed(f2).
C2_SlippedByFixedMonotone ==
  Len(map) > 0 =>
    \A f2 \in 0..getMaxFixed(map) : \A f1 \in 0..f2 :
      /\ ~slippedByFixedThrows(map, f1)
      /\ ~slippedByFixedThrows(map, f2)
      /\ slippedByFixed(map, f1) <= slippedByFixed(map, f2)

C2_Witness ==
  /\ Len(map) >= 2
  /\ \E f1, f2 \in 0..getMaxFixed(map) :
       /\ f1 < f2
       /\ slippedByFixedIndex(map, f1) < slippedByFixedIndex(map, f2)
       /\ slippedByFixed(map, f1) < slippedByFixed(map, f2)
  /\ \E f1, f2 \in 0..getMaxFixed(map) :
       f1 < f2 /\ slippedByFixed(map, f1) = slippedByFixed(map, f2)

\* C16: on a map built with non-decreasing arguments, each of endStuckFixed,
\* endFixed and endSlipped is non-decreasing from every range to the next.
C16_RangesNonDecreasing ==
  \A i \in 1..(Len(map) - 1) :
    /\ map[i].endStuckFixed <= map[i + 1].endStuckFixed
    /\ map[i].endFixed <= map[i + 1].endFixed
    /\ map[i].endSlipped <= map[i + 1].endSlipped

C16_Witness ==
  /\ Len(map) = 3
  /\ \A i \in 1..2 :
       /\ map[i].endStuckFixed < map[i + 1].endStuckFixed
       /\ map[i].endFixed < map[i + 1].endFixed
       /\ map[i].endSlipped < map[i + 1].endSlipped
  /\ map[1].endStuckFixed < map[1].endFixed

(***************************************************************************)
(* Properties of resolveEffectiveBreakValue (BreakSpec)                    *)
(***************************************************************************)
Resolved == resolved # "unresolved"

NonSpreadForced == {"page", "column", "region"}

\* C3: null ("none") is a two-sided identity: for every directive value X,
\* resolveEffectiveBreakValue(none, X) = X and
\* resolveEffectiveBreakValue(X, none) = X.
C3_NoneIsIdentity ==
  (Resolved /\ first \in DirectiveValues /\ second \in DirectiveValues) =>
    /\ (first = null => resolved = second)
    /\ (second = null => resolved = first)

C3_Witness == Resolved /\ first = "avoid" /\ second = null /\ resolved = "avoid"

\* C4: among page, column and region the stronger value wins whatever the
\* order: (column, region) and (region, column) give region, (column, page)
\* and (page, column) give page.
C4_ForcedStrengthOrder ==
  Resolved =>
    /\ (first = "column" /\ second = "region" => resolved = "region")
    /\ (first = "region" /\ second = "column" => resolved = "region")
    /\ (first = "column" /\ second = "page" => resolved = "page")
    /\ (first = "page" /\ second = "column" => resolved = "page")

C4_Witness == Resolved /\ first = "region" /\ second = "column" /\ resolved = "region"

\* C5: spread values dominate: when second is left/right/recto/verso the
\* result is second, otherwise when first is one of them the result is first.
C5_SpreadDominates ==
  (Resolved /\ first \in DirectiveValues /\ second \in DirectiveValues) =>
    /\ (isSpreadBreakValue(second) => resolved = second)
    /\ (~isSpreadBreakValue(second) /\ isSpreadBreakValue(first) => resolved = first)

C5_Witness == Resolved /\ first = "left" /\ second = "page" /\ resolved = "left"

\* C6 as stated: with both arguments in {page, column, region}, second =
\* column gives first; second = region gives second unless first = column,
\* which gives first; second = page gives second.
C6_Original ==
  (Resolved /\ first \in NonSpreadForced /\ second \in NonSpreadForced) =>
    /\ (second = "column" => resolved = first)
    /\ (second = "region" => resolved = IF first = "column" THEN first ELSE second)
    /\ (second = "page" => resolved = second)

\* C6 amended: second = column gives first; second = region gives first
\* unless first = column, which gives second (region); second = page gives
\* second.
C6_BothForced ==
  (Resolved /\ first \in NonSpreadForced /\ second \in NonSpreadForced) =>
    /\ (second = "column" => resolved = first)
    /\ (second = "region" => resolved = IF first = "column" THEN second ELSE first)
    /\ (second = "page" => resolved = second)

C6_Witness == Resolved /\ first = "page" /\ second = "region" /\ resolved = "page"

\* C7: with no spread value involved, forced beats avoid beats none and the
\* second argument wins ties: exactly one forced value is the result; with
\* no forced value and an avoid value the result is second if it is an avoid
\* value, else first; with neither the result is second unless it is none.
C7_ClassPrecedence ==
  (Resolved /\ ~isSpreadBreakValue(first) /\ ~isSpreadBreakValue(second)) =>
    LET forced1 == isForcedBreakValue(first)
        forced2 == isForcedBreakValue(second)
        avoid1 == isAvoidBreakValue(first)
        avoid2 == isAvoidBreakValue(second)
    IN /\ (forced1 /\ ~forced2 => resolved = first)
       /\ (forced2 /\ ~forced1 => resolved = second)
       /\ (~forced1 /\ ~forced2 /\ (avoid1 \/ avoid2) =>
             resolved = IF avoid2 THEN second ELSE first)
       /\ (~forced1 /\ ~forced2 /\ ~avoid1 /\ ~avoid2 =>
             resolved = IF second # null THEN second ELSE first)

C7_Witness ==
  Resolved /\ first = "avoid" /\ second = "avoid-page" /\ resolved = "avoid-page"

\* C40: resolveEffectiveBreakValue is associative on the twelve directive
\* values: for all a, b, c, resolve(resolve(a, b), c) = resolve(a,
\* resolve(b, c)), and the result is always one of its two arguments.  The
\* state holds a = first, b = second and resolve(a, b) = resolved; c ranges
\* over every directive value.
C40_Associative ==
  (Resolved /\ first \in DirectiveValues /\ second \in DirectiveValues) =>
    /\ resolved \in {first, second}
    /\ \A c \in DirectiveValues :
         /\ resolveEffectiveBreakValue(resolved, c)
              = resolveEffectiveBreakValue(first, resolveEffectiveBreakValue(second, c))
         /\ resolveEffectiveBreakValue(second, c) \in {second, c}

\* (column, page) resolved to page: with c = region the two groupings are
\* resolve(page, region) and resolve(column, region).
C40_Witness ==
  /\ Resolved /\ first = "column" /\ second = "page" /\ resolved = "page"
  /\ resolveEffectiveBreakValue(resolved, "region") = "page"
  /\ resolveEffectiveBreakValue(second, "region") = "page"

(***************************************************************************)
(* Properties of the Styler's traversal (Spec, SeekSpec)                   *)
(***************************************************************************)
\* The traversal is exhausted: the cursor is null.
Exhausted == styler.last = nullNode

\* The number of log entries op(arg).
Count(op, arg) == Cardinality({i \in 1..Len(log) : log[i].op = op /\ log[i].arg = arg})

\* The offsets of the boxes on the BoxStack after the first i logged events,
\* replayed from the push and pop events; ok is FALSE once a pop took a box
\* that was not the one pushed last.
RECURSIVE BoxesAfter(_)
BoxesAfter(i) ==
  IF i = 0 THEN [stack |-> <<>>, ok |-> TRUE]
  ELSE LET b == BoxesAfter(i - 1)
           e == log[i]
           n == Len(b.stack)
       IN IF e.op = "push" THEN [stack |-> Append(b.stack, e.arg), ok |-> b.ok]
          ELSE IF e.op = "pop"
               THEN IF n > 0 /\ b.stack[n] = e.arg
                    THEN [stack |-> SubSeq(b.stack, 1, n - 1), ok |-> b.ok]
                    ELSE [stack |-> b.stack, ok |-> FALSE]
          ELSE b

\* The offsets of the boxes now on the BoxStack.
BoxOffsets == [i \in 1..Len(styler.boxStack.stack) |-> styler.boxStack.stack[i].offset]

\* C8 as stated: boxes are popped in LIFO order, each at most once, and once
\* the traversal is exhausted every box pushed has been popped and the
\* BoxStack is empty.
C8_Original ==
  LET b == BoxesAfter(Len(log))
  IN /\ b.ok
     /\ BoxOffsets = b.stack
     /\ Exhausted => (b.stack = <<>> /\ empty(styler.boxStack))

\* C9: across styleUntil calls with strictly increasing start offsets, with
\* getStyle calls in between, no element is processed twice: it is pushed on
\* the cascade at most once, its box is pushed on the BoxStack at most once
\* and its style-cache entry is written at most once.
C9_ForwardOnly ==
  \A i \in 1..Len(log) :
    log[i].op \in {"pushElement", "push", "styleMap"} => Count(log[i].op, log[i].arg) = 1

C9_Witness ==
  /\ repeated
  /\ ret.op = "styleUntil" /\ ret.tag = "number"
  /\ lastStart >= 2
  /\ styler.last \notin {1, nullNode}
  /\ Count("pushElement", 2) = 1 /\ Count("pushElement", 3) = 1
  /\ Count("styleMap", getElementOffset(doc, 3)) = 1

\* C10 as stated: in a sequence of styleUntil calls with strictly increasing
\* start offsets, the call whose start offset lies beyond the end of the
\* document finds the tree exhausted: it returns the positive-infinity
\* sentinel and the cursor is null.
C10_Original ==
  (ret.op = "styleUntil" /\ lastStart > totalLength(doc)) =>
    (ret.tag = "Infinity" /\ Exhausted)

\* The push events of the boxes that are on the BoxStack after the first i
\* logged events, innermost last.
RECURSIVE PushesAfter(_)
PushesAfter(i) ==
  IF i = 0 THEN <<>>
  ELSE LET b == PushesAfter(i - 1)
           e == log[i]
       IN IF e.op = "push" THEN Append(b, e)
          ELSE IF e.op = "pop" /\ Len(b) > 0 THEN SubSeq(b, 1, Len(b) - 1)
          ELSE b

\* The push event that the pop event log[i] matches.
PushOf(i) == PushesAfter(i - 1)[Len(PushesAfter(i - 1))]

Pops == {i \in 1..Len(log) : log[i].op = "pop" /\ Len(PushesAfter(i - 1)) > 0}

\* C14: hasBox() and isBlock() are each computed at most once for a box, and
\* what they gave in the box's constructor is what they give whenever they
\* are asked later: by push, by encounteredTextNode on the last box, by
\* buildAfterPseudoElementBox and by pop, whatever was pushed and popped above
\* the box in between.
C14_WriteOnce ==
  /\ \A i \in 1..Len(log) :
       log[i].op \in {"push", "pop"} =>
         log[i].hasBoxComputed <= 1 /\ log[i].isBlockComputed <= 1
  /\ \A i \in Pops :
       /\ log[i].arg = PushOf(i).arg
       /\ log[i].hasBox = PushOf(i).hasBox
       /\ log[i].isBlock = PushOf(i).isBlock
  /\ LET pushes == PushesAfter(Len(log))
     IN /\ Len(pushes) = Len(styler.boxStack.stack)
        /\ \A k \in 1..Len(pushes) :
             LET box == styler.boxStack.stack[k]
             IN /\ box.offset = pushes[k].arg
                /\ box.hasBoxValue = pushes[k].hasBox
                /\ box.isBlockValue = pushes[k].isBlock
                /\ box.hasBoxComputed <= 1 /\ box.isBlockComputed <= 1

\* The boxes of a display: none element and of the block element inside it
\* have been pushed and popped: the inner one is a block without a box, as
\* it was when it was pushed under the box that is not displayed, and both
\* values of each box were computed once, in its constructor, although push
\* and pop asked for them again.
C14_Witness ==
  /\ Len(doc.nodes) = 3
  /\ doc.nodes[2].nodeType = ELEMENT_NODE /\ doc.nodes[3].nodeType = ELEMENT_NODE
  /\ doc.nodes[3].parent = 2
  /\ displayValue(doc.nodes[2].style) = "none"
  /\ displayValue(doc.nodes[3].style) = "block"
  /\ \E i \in Pops : /\ log[i].arg = getElementOffset(doc, 3) /\ ~log[i].hasBox
                      /\ log[i].isBlock
                      /\ log[i].hasBoxComputed = 1 /\ log[i].isBlockComputed = 1
  /\ \E i \in Pops : /\ log[i].arg = getElementOffset(doc, 2) /\ ~log[i].hasBox
                      /\ log[i].hasBoxComputed = 1 /\ log[i].isBlockComputed = 1

\* C18 as stated: getStyle(e, deep) returns the style cached under e's
\* offset, never an undefined entry; when the cursor has not passed e's
\* offset (with deep, the offset at which e's subtree ends) the traversal is
\* advanced so that lastOffset is greater than that offset afterwards, and
\* when it has passed it the Styler is left as it is.
C18_Original ==
  [][\A element \in Elements(doc), deep \in BOOLEAN :
       GetStyle(element, deep) =>
         LET key == getElementOffset(doc, element)
             offset == IF deep THEN getNodeOffset(doc, element, TRUE) ELSE key
         IN /\ ret'.tag = "style"
            /\ ret'.value = key
            /\ styler.lastOffset <= offset => styler'.lastOffset > offset
            /\ styler.lastOffset > offset => styler' = styler]_vars

\* C19 as stated: no Styler operation asks slippedByFixed for an offset
\* beyond getMaxFixed(); styleUntil asks it for startOffset, before it does
\* anything else, whenever startOffset <= lastOffset (lines 854-855).
C19_Original ==
  [][\A startOffset \in StartOffsets, lookup \in 0..MaxLookup :
       (StyleUntil(startOffset, lookup) /\ startOffset <= styler.lastOffset) =>
         startOffset <= getMaxFixed(styler.offsetMap)]_vars

(***************************************************************************)
(* Properties of the Styler under all of its operations (OpsSpec)          *)
(***************************************************************************)
\* C11: the cursor's offset lastOffset never decreases, whichever of
\* styleUntil, getStyle, styleUntilFlowIsReached, styleUntilIdIsReached,
\* replayFlowElementsFromOffset and resetFlowChunkStream is called.
C11_OffsetNeverDecreases == [][styler'.lastOffset >= styler.lastOffset]_vars

C11_Witness ==
  /\ ret.op = "replayFlowElementsFromOffset"
  /\ styler.flowListener # null
  /\ \E n \in NodeIds(doc) : doc.nodes[n].nodeType = TEXT_NODE
  /\ styler.lastOffset = totalLength(doc)
  /\ styler.lastOffset > newStyler(doc).lastOffset

(***************************************************************************)
(* Properties of flows and the offset map (FlowSpec)                       *)
(***************************************************************************)
\* The document is a root element with exactly two child elements, the first
\* assigned to the primary flow "body" and the second to the flow "footnote".
TwoSiblings ==
  /\ Len(doc.nodes) = 3
  /\ \A n \in {2, 3} : doc.nodes[n].nodeType = ELEMENT_NODE /\ doc.nodes[n].parent = 1
  /\ doc.nodes[2].style.flowInto = "body"
  /\ doc.nodes[3].style.flowInto = "footnote"

\* Both siblings have been processed.
BothProcessed == styler.lastOffset = totalLength(doc)

\* C12 as stated: after processing the two siblings getMaxFixed() = 2,
\* getMaxSlipped() = 1 and slippedByFixed(2) = 1.
C12_Original ==
  (TwoSiblings /\ BothProcessed) =>
    /\ getMaxFixed(styler.offsetMap) = 2
    /\ getMaxSlipped(styler.offsetMap) = 1
    /\ ~slippedByFixedThrows(styler.offsetMap, 2)
    /\ slippedByFixed(styler.offsetMap, 2) = 1

\* C12 amended: the root element takes the offset 0 of the primary flow, so
\* after processing the two siblings getMaxFixed() = 3, getMaxSlipped() = 2
\* and slippedByFixed(3) = 2: the "footnote" sibling adds 1 to the fixed
\* offsets and nothing to the slipped ones.
C12_TwoSiblings ==
  (TwoSiblings /\ BothProcessed) =>
    /\ getMaxFixed(styler.offsetMap) = 3
    /\ getMaxSlipped(styler.offsetMap) = 2
    /\ ~slippedByFixedThrows(styler.offsetMap, 3)
    /\ slippedByFixed(styler.offsetMap, 3) = 2
    /\ slippedByFixed(styler.offsetMap, 2) = 2

C12_Witness ==
  /\ TwoSiblings /\ BothProcessed
  /\ ret.op = "styleUntil"
  /\ styler.offsetMap = <<SlipRange(2, 3, 2)>>

\* The flow an element is in: the flow-into of the nearest element, itself
\* included, that has one; "body" when none has.
RECURSIVE FlowOfElement(_)
FlowOfElement(n) ==
  IF doc.nodes[n].style.flowInto # null THEN doc.nodes[n].style.flowInto
  ELSE IF n = 1 THEN "body"
  ELSE FlowOfElement(doc.nodes[n].parent)

\* The element starts a flow other than its parent's.
StartsOtherFlow(n) ==
  /\ n # 1
  /\ doc.nodes[n].style.flowInto # null
  /\ doc.nodes[n].style.flowInto # FlowOfElement(doc.nodes[n].parent)

ElementAt(offset) == CHOOSE n \in Elements(doc) : getElementOffset(doc, n) = offset

\* C15: push saves the pair (atBlockStart, atFlowStart) exactly when the box
\* pushed starts a flow other than that of the box below it; the pop of that
\* box, and no other pop, restores the pair, to what it was before the push,
\* whatever was pushed, popped or met as text in between; atStartStack holds
\* one pair for each such box on the stack, so pop never restores from an
\* empty atStartStack.
C15_SaveRestore ==
  /\ \A i \in 1..Len(log) :
       log[i].op = "push" => (log[i].saves <=> StartsOtherFlow(ElementAt(log[i].arg)))
  /\ \A i \in Pops :
       /\ log[i].restores <=> PushOf(i).saves
       /\ PushOf(i).saves =>
            /\ log[i].atBlockStart = PushOf(i).atBlockStart
            /\ log[i].atFlowStart = PushOf(i).atFlowStart
  /\ LET pushes == PushesAfter(Len(log))
     IN Len(styler.boxStack.atStartStack) =
          Cardinality({k \in 1..Len(pushes) : pushes[k].saves})
  /\ ~popThrows(WithLog(styler, log)) \/ empty(styler.boxStack)

\* A "footnote" element after text in the "body" flow has been pushed, with
\* the pair (FALSE, FALSE) saved, and popped, after the push had made the
\* pair (TRUE, TRUE).
C15_Witness ==
  \E i \in Pops :
    /\ log[i].restores
    /\ ~log[i].atBlockStart /\ ~log[i].atFlowStart
    /\ PushOf(i).saves
    /\ doc.nodes[ElementAt(log[i].arg)].style.flowInto = "footnote"
    /\ displayValue(doc.nodes[ElementAt(log[i].arg)].style) = "block"
    /\ styler.boxStack.atBlockStart = FALSE
    /\ Exhausted

(***************************************************************************)
(* Properties of break propagation (PropagationSpec)                       *)
(***************************************************************************)
\* outer has a ::before pseudo-element with non-trivial content and
\* break-before: page, and inner, with break-before: avoid, is its first
\* child.
WrapsAvoid(outer, inner) ==
  /\ firstChild(doc, outer) = inner
  /\ doc.nodes[inner].nodeType = ELEMENT_NODE
  /\ doc.nodes[inner].style.breakBefore = "avoid"
  /\ doc.nodes[outer].style.before # <<>>
  /\ nonTrivialContent(doc.nodes[outer].style.before[1].content)
  /\ doc.nodes[outer].style.before[1].breakBefore = "page"

\* The cursor is on inner, which has just been processed: the boxes of outer
\* and inner are the two last boxes of the BoxStack.
JustProcessed(outer, inner) ==
  /\ WrapsAvoid(outer, inner)
  /\ styler.last = inner
  /\ styler.lastOffset = getElementOffset(doc, inner) + 1

\* nearestBlockStartOffset(outer box), taken with the box of outer as the
\* last box of the stack (it is the last but one when inner is the last).
outerAnchor ==
  LET n == Len(styler.boxStack.stack)
      below == [styler.boxStack EXCEPT !.stack = SubSeq(@, 1, n - 1)]
  IN nearestBlockStartOffset(below, styler.boxStack.stack[n - 1])

outerFlow == styler.boxStack.stack[Len(styler.boxStack.stack) - 1].flowName

\* C13 as stated: once inner has been processed, the offset recorded for the
\* "page" break of outer's ::before pseudo-element in forcedBreakOffsets of
\* the flow is nearestBlockStartOffset(outer box); inner's offset is not
\* recorded, and the value registered at the anchor is still "page".
C13_Original ==
  \A outer \in Elements(doc), inner \in Elements(doc) :
    JustProcessed(outer, inner) =>
      LET offsets == styler.flows[outerFlow].forcedBreakOffsets
          recorded == {offsets[k] : k \in 1..Len(offsets)}
      IN /\ outerAnchor \in recorded
         /\ getElementOffset(doc, inner) \notin recorded
         /\ breakBeforeValueAt(styler, outerAnchor) = "page"

StrictlyIncreasing(offsets) ==
  \A k \in 1..(Len(offsets) - 1) : offsets[k] < offsets[k + 1]

IsPrefix(old, new) ==
  Len(old) <= Len(new) /\ \A k \in 1..Len(old) : old[k] = new[k]

\* C17: across every Styler operation each flow stays registered and its
\* forcedBreakOffsets keeps the entries it had, unchanged, as a prefix; the
\* list is strictly increasing, so it has no duplicates.
C17_AppendOnlyOrdered ==
  [][/\ \A f \in DOMAIN styler.flows :
          /\ f \in DOMAIN styler'.flows
          /\ IsPrefix(styler.flows[f].forcedBreakOffsets,
                      styler'.flows[f].forcedBreakOffsets)
     /\ \A f \in DOMAIN styler'.flows :
          StrictlyIncreasing(styler'.flows[f].forcedBreakOffsets)]_vars

\* The "page" break of a ::before pseudo-element has been recorded at 0 and
\* the break-after: page of the element inside at 3, in two calls.
C17_Witness ==
  /\ styler.flows["body"].forcedBreakOffsets = <<0, 3>>
  /\ breakBeforeValueAt(styler, 0) = "page"
  /\ breakBeforeValueAt(styler, 3) = "page"
  /\ Exhausted
  /\ ret.op = "getStyle"

(***************************************************************************)
(* Flow listener (OpsSpec)                                                 *)
(***************************************************************************)
\* The positions in the history at which resetFlowChunkStream attached a listener.
Attachments == {i \in 1..Len(log) : log[i].op = "resetFlowChunkStream"}

\* The history since the last attachment of a listener.
SinceAttached ==
  LET last == CHOOSE i \in Attachments : \A j \in Attachments : j <= i
  IN SubSeq(log, last + 1, Len(log))

IsNotification(entry) == entry.op = "encounteredFlowChunk"

\* The encounteredFlowChunk calls the attached listener has received.
Notifications == SelectSeq(SinceAttached, IsNotification)

\* C20: while a flow listener is attached, it has received encounteredFlowChunk
\* exactly once for each chunk of the registry, in the order of flowChunks,
\* each time with the Flow registered under the chunk's flow name; without a
\* listener nothing is notified.
C20_NotifiedOncePerChunk ==
  IF Attachments = {}
  THEN /\ styler.flowListener = null
       /\ \A i \in 1..Len(log) : ~IsNotification(log[i])
  ELSE /\ styler.flowListener # null
       /\ Len(Notifications) = Len(styler.flowChunks)
       /\ \A i \in 1..Len(Notifications) :
            /\ Notifications[i].arg = i
            /\ styler.flowChunks[i].flowName \in DOMAIN styler.flows
            /\ Notifications[i].flow = styler.flowChunks[i].flowName

\* A listener was attached when only the root's chunk was known; a chunk of
\* the flow "footnote" and a third chunk were discovered afterwards, the last
\* event of the history being the listener's call for the third.
C20_Witness ==
  /\ Attachments # {}
  /\ Len(SinceAttached) > Len(Notifications)
  /\ IsNotification(SinceAttached[1])
  /\ ~IsNotification(SinceAttached[2])
  /\ Len(styler.flowChunks) = 3
  /\ styler.flowChunks[2].flowName = "footnote"
  /\ IsNotification(log[Len(log)])

(***************************************************************************)
(* SlipMap.addStuckRange and addSlippedRange (SlipSpec, StuckFirstSpec)    *)
(***************************************************************************)
\* The ranges of old are those of new, the last one left aside.
SameButLast(old, new) ==
  /\ Len(new) = Len(old)
  /\ \A i \in 1..(Len(old) - 1) : new[i] = old[i]

\* addStuckRange(endFixed) on a last range without a slipped part: its three
\* fields grow by the same delta and no range is added.
ExtendsLast(endFixed) ==
  LET range == map[Len(map)]
      delta == endFixed - range.endFixed
  IN /\ SameButLast(map, map')
     /\ map'[Len(map)].endFixed = range.endFixed + delta
     /\ map'[Len(map)].endStuckFixed = range.endStuckFixed + delta
     /\ map'[Len(map)].endSlipped = range.endSlipped + delta

HasSlippedPart(range) == range.endFixed # range.endStuckFixed

\* C25 as stated: the range addStuckRange(endFixed) opens after a last range
\* with a slipped part has its three fields equal to endFixed.
C25_Original ==
  [][\A endFixed \in 0..MaxFixed :
       (AddStuckRange(endFixed) /\ map # <<>>) =>
         IF HasSlippedPart(map[Len(map)])
         THEN map' = Append(map, SlipRange(endFixed, endFixed, endFixed))
         ELSE ExtendsLast(endFixed)]_vars

\* C25 amended: addStuckRange(endFixed) on a non-empty map extends a last
\* range that has endFixed = endStuckFixed by the same delta in its three
\* fields; otherwise it appends a range whose endStuckFixed and endFixed are
\* endFixed and whose endSlipped is the last endSlipped plus the length
\* endFixed minus the last endFixed.
C25_AddStuckRange ==
  [][\A endFixed \in 0..MaxFixed :
       (AddStuckRange(endFixed) /\ map # <<>>) =>
         IF HasSlippedPart(map[Len(map)])
         THEN map' = Append(map, SlipRange(endFixed, endFixed,
                                           map[Len(map)].endSlipped + endFixed
                                             - map[Len(map)].endFixed))
         ELSE ExtendsLast(endFixed)]_vars

\* addStuckRange has opened a second range after a slipped part of length 2:
\* its slipped end is behind its fixed end.
C25_Witness ==
  /\ Len(map) = 2
  /\ map[1].endFixed = map[1].endStuckFixed + 2
  /\ map[2] = SlipRange(lastArg, lastArg, lastArg - 2)
  /\ [fixed |-> lastArg, maxFixed |-> map[1].endFixed] \in registered
  /\ lastArg > map[1].endFixed

\* C26 as stated: after addSlippedRange(endFixed) on any map, the empty one
\* included, getMaxFixed() is endFixed, getMaxSlipped() is what it was and
\* no range has another endStuckFixed or endSlipped.
C26_Original ==
  [][\A endFixed \in 0..MaxFixed :
       AddSlippedRange(endFixed) =>
         /\ getMaxFixed(map') = endFixed
         /\ getMaxSlipped(map') = getMaxSlipped(map)
         /\ \A i \in 1..Len(map) :
              /\ map'[i].endStuckFixed = map[i].endStuckFixed
              /\ map'[i].endSlipped = map[i].endSlipped]_vars

\* The length skipped by the addSlippedRange calls made so far.
RECURSIVE SlippedLength(_)
SlippedLength(i) ==
  IF i = 0 THEN 0
  ELSE SlippedLength(i - 1)
         + (IF log[i].op = "addSlippedRange" THEN log[i].arg - log[i].maxFixed ELSE 0)

\* C27: on a map whose first call is addStuckRange and whose arguments never
\* decrease, every range has endSlipped <= endStuckFixed <= endFixed and
\* getMaxFixed() - getMaxSlipped() is the total length added by the
\* addSlippedRange calls.
C27_SlippedAccounting ==
  /\ \A i \in 1..Len(map) :
       /\ map[i].endSlipped <= map[i].endStuckFixed
       /\ map[i].endStuckFixed <= map[i].endFixed
  /\ getMaxFixed(map) - getMaxSlipped(map) = SlippedLength(Len(log))

\* Two slipped parts, of lengths 1 and 2, each followed by a stuck part.
C27_Witness ==
  /\ Len(map) = 3
  /\ map[1].endFixed - map[1].endStuckFixed = 1
  /\ map[2].endFixed - map[2].endStuckFixed = 2
  /\ getMaxFixed(map) - getMaxSlipped(map) = 3
  /\ SlippedLength(Len(log)) = 3
  /\ log[1].op = "addStuckRange"

(***************************************************************************)
(* The cursor Styler.last (Spec)                                           *)
(***************************************************************************)
\* styleUntil(startOffset, lookup) gets past its first query of the offset
\* map (lines 854-861) and past the test of line 862: it walks.
Walks(startOffset, lookup) ==
  /\ styler.last # nullNode
  /\ startOffset <= styler.lastOffset =>
       /\ ~slippedByFixedThrows(styler.offsetMap, startOffset)
       /\ slippedByFixed(styler.offsetMap, startOffset) + lookup
            >= getMaxSlipped(styler.offsetMap)

\* C24: in every walk of styleUntil, over a root without children too, the
\* cursor ends on a node of the root's subtree or as null, and no node
\* outside the subtree (the root's parent, a null parent) is dereferenced,
\* which would be a TypeError thrown by the walk.
C24_Original ==
  [][\A startOffset \in StartOffsets, lookup \in 0..MaxLookup :
       (StyleUntil(startOffset, lookup) /\ Walks(startOffset, lookup)) =>
         /\ styler'.last \in NodeIds(doc) \cup {nullNode}
         /\ ret'.tag # "TypeError"]_vars

(***************************************************************************)
(* Seeking twice (Spec)                                                    *)
(***************************************************************************)
\* What styleUntil(startOffset, lookup) returns when called in the state the
\* step leads to.
Again(startOffset, lookup) ==
  styleUntil(WithLog(styler', log'), doc, startOffset, lookup).ret

\* C22: what styleUntil(startOffset, lookup) returns does not depend on how
\* far earlier calls moved the cursor: a call that returned an offset or the
\* sentinel returns the same when it is made again with the same arguments,
\* also when the first call reached the end of the tree.
C22_Original ==
  [][\A startOffset \in StartOffsets, lookup \in 0..MaxLookup :
       (StyleUntil(startOffset, lookup) /\ ret'.tag \in {"number", "Infinity"}) =>
         /\ Again(startOffset, lookup).tag = ret'.tag
         /\ Again(startOffset, lookup).value = ret'.value]_vars

(***************************************************************************)
(* BoxStack.push and BoxStack.nearestBlockStartOffset (BoxSpec)            *)
(***************************************************************************)
PushEvents == {i \in 1..Len(log) : log[i].op = "push"}

\* C30 as stated: push sets atBlockStart to true only for a new Box that has
\* a box, has no ::before pseudo-box and is block, and atFlowStart to true
\* only for one that has a box, has no ::before pseudo-box and is at flow
\* start; in every other case the flag keeps the value it had.
C30_Original ==
  \A i \in PushEvents :
    LET e == log[i]
    IN /\ e.blockStartAfter =
            IF e.hasBox /\ ~e.beforeBox /\ e.isBlock THEN TRUE ELSE e.atBlockStart
       /\ e.flowStartAfter =
            IF e.hasBox /\ ~e.beforeBox /\ e.isAtFlowStart THEN TRUE ELSE e.atFlowStart

\* C30 amended: for a new Box that has a box, push leaves atBlockStart true
\* exactly when the Box has no ::before pseudo-box and is block, and
\* atFlowStart true exactly when it has no ::before pseudo-box and is at flow
\* start, so that either flag may be set to false; for a new Box without a
\* box each flag keeps the value it had.
C30_PushFlags ==
  \A i \in PushEvents :
    LET e == log[i]
    IN /\ e.blockStartAfter =
            IF e.hasBox THEN ~e.beforeBox /\ e.isBlock ELSE e.atBlockStart
       /\ e.flowStartAfter =
            IF e.hasBox THEN ~e.beforeBox /\ e.isAtFlowStart ELSE e.atFlowStart

\* A push of a Box without a box has kept both flags true, and a later push
\* of an inline Box has set atBlockStart to false and kept atFlowStart true.
C30_Witness ==
  \E i, j \in PushEvents :
    /\ i < j
    /\ ~log[i].hasBox /\ log[i].atBlockStart /\ log[i].blockStartAfter
    /\ log[i].atFlowStart /\ log[i].flowStartAfter
    /\ log[j].hasBox /\ ~log[j].isBlock /\ ~log[j].beforeBox
    /\ log[j].atBlockStart /\ ~log[j].blockStartAfter /\ log[j].flowStartAfter

\* The box pushed last and the boxes of its ancestors, outermost first.
TopBox == lastBox(styler.boxStack)
Ancestors == SubSeq(styler.boxStack.stack, 1, Len(styler.boxStack.stack) - 1)

\* An ancestor at which the walk up from box ends.
EndsWalk(a, box) == a.flowName # box.flowName \/ ~a.atBlockStart \/ a.isRoot

\* The index of the nearest ancestor of TopBox that ends the walk.
NearestEnd ==
  CHOOSE j \in 1..Len(Ancestors) :
    /\ EndsWalk(Ancestors[j], TopBox)
    /\ \A k \in (j + 1)..Len(Ancestors) : ~EndsWalk(Ancestors[k], TopBox)

\* nearestBlockStartOffset(TopBox) as called after the push of TopBox, and as
\* called after its pop.
AfterPush == nearestBlockStartOffset(styler.boxStack, TopBox)
AfterPop == nearestBlockStartOffset([styler.boxStack EXCEPT !.stack = Ancestors], TopBox)

HasAncestors == Len(styler.boxStack.stack) >= 2

\* C28 as stated: for a box that is not atBlockStart the result is its own
\* offset; otherwise it is the offset of the nearest ancestor that is of
\* another flow or not atBlockStart, or of the root box.
C28_Original ==
  HasAncestors =>
    /\ AfterPush = IF ~TopBox.atBlockStart THEN TopBox.offset
                   ELSE Ancestors[NearestEnd].offset
    /\ AfterPop = AfterPush

\* The box below ancestor j on the way up from TopBox.
BelowAncestor(j) == IF j = Len(Ancestors) THEN TopBox ELSE Ancestors[j + 1]

\* C28 amended: for a box that is not atBlockStart the result is its own
\* offset; otherwise the walk goes up while the ancestor is of the box's flow
\* and atBlockStart, and the result is the offset of the first ancestor that
\* is not atBlockStart, or of the root box, or, when an ancestor of another
\* flow comes first, the offset of the box right below that ancestor (the
\* box itself when that ancestor is its parent). For a box atBlockStart
\* without ancestors on the stack it throws the Error.
C28_NearestBlockStart ==
  /\ HasAncestors =>
       /\ AfterPush =
            IF ~TopBox.atBlockStart THEN TopBox.offset
            ELSE IF Ancestors[NearestEnd].flowName # TopBox.flowName
                 THEN BelowAncestor(NearestEnd).offset
                 ELSE Ancestors[NearestEnd].offset
       /\ AfterPop = AfterPush
  /\ Len(styler.boxStack.stack) = 1 =>
       /\ AfterPush = IF TopBox.atBlockStart THEN NoBlockStart ELSE TopBox.offset
       /\ AfterPop = AfterPush

\* A box at block start whose parent, of the same flow "footnote" and at
\* block start, is the child of the root box of the flow "body": the result
\* is the parent's offset, not the root's.
C28_Witness ==
  /\ Len(styler.boxStack.stack) = 3
  /\ TopBox.atBlockStart /\ Ancestors[2].atBlockStart
  /\ TopBox.flowName = "footnote" /\ Ancestors[2].flowName = "footnote"
  /\ Ancestors[1].flowName = "body"
  /\ NearestEnd = 1
  /\ AfterPush = Ancestors[2].offset
  /\ AfterPush # Ancestors[1].offset /\ AfterPush # TopBox.offset

(***************************************************************************)
(* "No block start offset found!" (AfterSpec)                              *)
(***************************************************************************)
\* C29: in no traversal does a call of nearestBlockStartOffset made by
\* styleUntil, after a push or after a pop for an ::after pseudo-box, exhaust
\* the stack and throw Error("No block start offset found!").
C29_Original == ret.tag # "Error"

(***************************************************************************)
(* Flow chunks and forced break offsets (ChunkSpec)                        *)
(***************************************************************************)
\* The offsets recorded for flow f.
Recorded(f) ==
  {styler.flows[f].forcedBreakOffsets[k] :
     k \in 1..Len(styler.flows[f].forcedBreakOffsets)}

\* C23: no forced break is lost: the offset of every call of
\* registerForcedBreakOffset made with a forced break value is among the
\* forcedBreakOffsets of the call's flow (offsets are never removed, so it is
\* there from the call on), also when the offset is that of an ancestor that
\* starts before a break already recorded for the flow.
C23_Original ==
  \A i \in 1..Len(log) :
    log[i].op = "registerForcedBreakOffset" => log[i].arg \in Recorded(log[i].flow)

\* C21: across every operation each chunk discovered keeps its flow name,
\* its element and its start offset, no chunk is removed, and each flow keeps
\* its name and parent flow while its forcedBreakOffsets only has offsets
\* appended.
C21_ChunksFixed ==
  [][/\ Len(styler'.flowChunks) >= Len(styler.flowChunks)
     /\ \A i \in 1..Len(styler.flowChunks) :
          /\ styler'.flowChunks[i].flowName = styler.flowChunks[i].flowName
          /\ styler'.flowChunks[i].element = styler.flowChunks[i].element
          /\ styler'.flowChunks[i].startOffset = styler.flowChunks[i].startOffset
     /\ \A f \in DOMAIN styler.flows :
          /\ f \in DOMAIN styler'.flows
          /\ styler'.flows[f].flowName = styler.flows[f].flowName
          /\ styler'.flows[f].parentFlowName = styler.flows[f].parentFlowName
          /\ IsPrefix(styler.flows[f].forcedBreakOffsets,
                      styler'.flows[f].forcedBreakOffsets)]_vars

\* The root's chunk of the flow "body" is as it was discovered, a chunk of
\* "footnote" and a second chunk of "body" inside it have been discovered
\* later, and the offsets of "body" have grown to two.
C21_Witness ==
  /\ Len(styler.flowChunks) = 3
  /\ styler.flowChunks[1] = [flowName |-> "body", element |-> 1, startOffset |-> 0,
                             breakBefore |-> styler.flowChunks[1].breakBefore]
  /\ styler.flowChunks[2].flowName = "footnote"
  /\ styler.flowChunks[3].flowName = "body" /\ styler.flowChunks[3].startOffset = 2
  /\ Len(styler.flows["body"].forcedBreakOffsets) = 2
  /\ Exhausted

(***************************************************************************)
(* The break-before value of a flow chunk (StartSpec)                      *)
(***************************************************************************)
\* C31 as stated: no field of a chunk discovered changes, its break-before
\* value included.
C31_Original ==
  [][\A i \in 1..Len(styler.flowChunks) :
       styler'.flowChunks[i] = styler.flowChunks[i]]_vars

\* C31 amended: across every operation a chunk discovered keeps its flow
\* name, its element and its start offset and its flow only has offsets
\* appended, while its breakBefore is either left alone or replaced by
\* resolveEffectiveBreakValue(the value it holds, a break value).
C31_ChunkFields ==
  [][/\ \A i \in 1..Len(styler.flowChunks) :
          /\ styler'.flowChunks[i].flowName = styler.flowChunks[i].flowName
          /\ styler'.flowChunks[i].element = styler.flowChunks[i].element
          /\ styler'.flowChunks[i].startOffset = styler.flowChunks[i].startOffset
          /\ \E v \in BreakValues :
               styler'.flowChunks[i].breakBefore
                 = resolveEffectiveBreakValue(styler.flowChunks[i].breakBefore, v)
     /\ \A f \in DOMAIN styler.flows :
          /\ f \in DOMAIN styler'.flows
          /\ IsPrefix(styler.flows[f].forcedBreakOffsets,
                      styler'.flows[f].forcedBreakOffsets)]_vars

\* The root has no break-before value, so its chunk was created with none;
\* its first child has break-before: page and has been visited, and the
\* chunk now holds "page".
C31_Witness ==
  /\ doc.nodes[1].style.breakBefore = null
  /\ Len(doc.nodes) >= 2 /\ doc.nodes[2].style.breakBefore = "page"
  /\ styler.lastOffset > 1
  /\ styler.flowChunks[1].startOffset = 0
  /\ styler.flowChunks[1].breakBefore = "page"
  /\ ret.tag # "Error"

\* C32: a chunk's breakBefore that holds a forced break value holds a forced
\* break value after every operation: no Box construction and no
\* BoxStack.pop replaces it with an avoid value or with none.
C32_ForcedStays ==
  [][\A i \in 1..Len(styler.flowChunks) :
       isForcedBreakValue(styler.flowChunks[i].breakBefore)
         => isForcedBreakValue(styler'.flowChunks[i].breakBefore)]_vars

\* The traversal is exhausted over a document whose first child has
\* break-before: page and an ::after pseudo-element with break-before:
\* avoid: the pop of that child offered "avoid" at the flow start, and the
\* chunk still holds "page".
C32_Witness ==
  /\ Exhausted /\ ret.tag # "Error"
  /\ Len(doc.nodes) >= 2
  /\ doc.nodes[2].style.breakBefore = "page" /\ doc.nodes[2].style.after # <<>>
  /\ \E i \in 1..Len(log) : log[i].op = "pop" /\ log[i].arg = 1
  /\ styler.flowChunks[1].breakBefore = "page"

(***************************************************************************)
(* The primary flag (Spec)                                                 *)
(***************************************************************************)
\* What this.primary is while the cursor is inside node n when the flag is
\* scoped to the element: true in the root (primaryStack.push(true) in the
\* constructor), set by a flow-into declaration, cleared by display: none,
\* and otherwise what it is in the parent; a text node has its parent's.
RECURSIVE PrimaryIn(_)
PrimaryIn(n) ==
  IF n = 1 THEN TRUE
  ELSE IF doc.nodes[n].nodeType # ELEMENT_NODE THEN PrimaryIn(doc.nodes[n].parent)
  ELSE LET style == doc.nodes[n].style
       IN /\ displayValue(style) # "none"
          /\ IF style.flowInto # null THEN style.flowInto \in doc.primaryFlows
             ELSE PrimaryIn(doc.nodes[n].parent)

NodeLength(n) ==
  IF doc.nodes[n].nodeType = ELEMENT_NODE THEN 1 ELSE doc.nodes[n].textLength

\* The slipped offsets that the SlipMap gives to node n.
SlippedOf(n) ==
  slippedByFixed(styler.offsetMap, getElementOffset(doc, n) + NodeLength(n))
    - slippedByFixed(styler.offsetMap, getElementOffset(doc, n))

\* The nodes styleUntil has registered: those other than the root (which the
\* constructor counts, lines 491 and 503) that end within the SlipMap.
Registered == {n \in NodeIds(doc) \ {1} :
                 getElementOffset(doc, n) + NodeLength(n) <= getMaxFixed(styler.offsetMap)}

\* C33: the primary flag is scoped to the element: with the cursor on a
\* node, whatever was entered and left before, the flag is what the node's
\* own chain of ancestors makes it, so it is again true on content that
\* follows a non-primary or display: none element inside a primary parent;
\* and every node registered was given a stuck range when that value is
\* true and a slipped range (no slipped offsets) when it is false.
C33_PrimaryScoped ==
  /\ styler.last \in NodeIds(doc) => styler.primary = PrimaryIn(styler.last)
  /\ \A n \in Registered : SlippedOf(n) = IF PrimaryIn(n) THEN NodeLength(n) ELSE 0

\* The cursor is on an element of the root that follows an element of the
\* flow "footnote" or with display: none: the flag is true again, the
\* element has its slipped offset and the one before it has none.
C33_Witness ==
  /\ Len(doc.nodes) = 3 /\ styler.last = 3
  /\ doc.nodes[3].nodeType = ELEMENT_NODE /\ doc.nodes[3].parent = 1
  /\ doc.nodes[2].nodeType = ELEMENT_NODE /\ ~PrimaryIn(2)
  /\ styler.primary
  /\ 3 \in Registered /\ SlippedOf(3) = 1 /\ SlippedOf(2) = 0

(***************************************************************************)
(* The cascade, the primaryStack and the BoxStack (OpsSpec)                *)
(***************************************************************************)
\* The number of elements on the path from the root to node n, n included
\* when it is an element.
RECURSIVE PathElements(_)
PathElements(n) ==
  (IF doc.nodes[n].nodeType = ELEMENT_NODE THEN 1 ELSE 0)
    + (IF n = 1 THEN 0 ELSE PathElements(doc.nodes[n].parent))

\* C34: in every state between Styler operations primaryStack, the
\* BoxStack's stack and the cascade hold the same number of entries, and
\* with the cursor on a node that number is the number of open elements on
\* the path from the root to the cursor.
C34_Original ==
  /\ Len(styler.primaryStack) = Len(styler.boxStack.stack)
  /\ Len(styler.primaryStack) = Len(styler.cascade)
  /\ styler.last \in NodeIds(doc) => Len(styler.cascade) = PathElements(styler.last)

(***************************************************************************)
(* The break-after value of an element left (LeaveSpec)                    *)
(***************************************************************************)
\* The elements that styleUntil has left.
Left == {e \in Elements(doc) : Count("popElement", e) > 0}

\* The break-after value of the element's ::after pseudo-box, null without
\* one, and the element's own, as Box.getBreakValue gives them.
PseudoBreakAfter(e) ==
  LET style == doc.nodes[e].style
  IN IF style.after # <<>> /\ nonTrivialContent(style.after[1].content)
     THEN getBreakValueOf(style.after[1], FALSE, "after")
     ELSE null

OwnBreakAfter(e) == getBreakValueOf(doc.nodes[e].style, e = 1, "after")

EffectiveBreakAfter(e) == resolveEffectiveBreakValue(PseudoBreakAfter(e), OwnBreakAfter(e))

\* e is the only element of the document with a break value.
OnlyBreak(e) ==
  \A m \in Elements(doc) \ {e} :
    doc.nodes[m].style.breakAfter = null /\ doc.nodes[m].style.after = <<>>

\* C35 as stated: for every element left, the effective break-after is
\* resolveEffectiveBreakValue(break-after of its ::after pseudo-box if any,
\* its own break-after) and it is registered for the element's flow at the
\* element's end offset: a forced value has a registerForcedBreakOffset call
\* with that offset and flow, and when no other element has a break value
\* the value held for the end offset is exactly the effective break-after.
C35_Original ==
  \A e \in Left :
    LET end == getNodeOffset(doc, e, TRUE)
    IN /\ isForcedBreakValue(EffectiveBreakAfter(e)) =>
            \E i \in 1..Len(log) :
              /\ log[i].op = "registerForcedBreakOffset"
              /\ log[i].arg = end /\ log[i].flow = FlowOfElement(e)
       /\ OnlyBreak(e) => breakBeforeValueAt(styler, end) = EffectiveBreakAfter(e)


(***************************************************************************)
(* styleUntilFlowIsReached and styleUntilIdIsReached (OpsSpec)             *)
(***************************************************************************)
\* The call of the step has returned.
Returns == ret'.tag \notin {"TypeError", "Error"}

\* A chunk of the flow has been registered during the step.
FlowDiscovered(flowName) ==
  \E i \in (Len(styler.flowChunks) + 1)..Len(styler'.flowChunks) :
    styler'.flowChunks[i].flowName = flowName

\* An element with the id has been visited during the step.
IdDiscovered(id) ==
  \E i \in (Len(log) + 1)..Len(log') :
    log'[i].op = "pushElement" /\ doc.nodes[log'[i].arg].id = id

\* C37: a call of styleUntilFlowIsReached(name) returns with a chunk of the
\* flow registered during the call or with the traversal exhausted; a call
\* of styleUntilIdIsReached(id) returns with an element of that id visited
\* during the call or with the traversal exhausted, and idToReach is null
\* after it.
C37_Original ==
  [][/\ \A flowName \in FlowNames :
          StyleUntilFlowIsReached(flowName) =>
            Returns /\ (FlowDiscovered(flowName) \/ styler'.last = nullNode)
     /\ \A id \in Ids \ {""} :
          StyleUntilIdIsReached(id) =>
            /\ Returns /\ (IdDiscovered(id) \/ styler'.last = nullNode)
            /\ styler'.idToReach = null]_vars

(***************************************************************************)
(* resetFlowChunkStream (OpsSpec)                                          *)
(***************************************************************************)
\* The events of the step and, among them, the listener's calls.
NewEvents == SubSeq(log', Len(log) + 1, Len(log'))
NewNotifications == SelectSeq(NewEvents, IsNotification)

\* C38: resetFlowChunkStream hands every chunk already discovered to the new
\* listener exactly once, in discovery order, and discovers nothing itself,
\* so these calls come before those for any later chunk; every other
\* operation made with a listener attached hands it exactly the chunks the
\* operation discovers, once each, in discovery order.
C38_ResetStream ==
  [][IF ResetFlowChunkStream
     THEN /\ styler'.flowChunks = styler.flowChunks
          /\ styler'.flowListener # null
          /\ Len(NewEvents) = 1 + Len(styler.flowChunks)
          /\ NewEvents[1].op = "resetFlowChunkStream"
          /\ \A i \in 1..Len(styler.flowChunks) :
               /\ IsNotification(NewEvents[i + 1])
               /\ NewEvents[i + 1].arg = i
               /\ NewEvents[i + 1].flow = styler.flowChunks[i].flowName
     ELSE styler.flowListener # null =>
            /\ Len(NewNotifications) = Len(styler'.flowChunks) - Len(styler.flowChunks)
            /\ \A i \in 1..Len(NewNotifications) :
                 NewNotifications[i].arg = Len(styler.flowChunks) + i]_vars

\* The listener was attached when two chunks were known and was handed
\* both, in order; a third chunk was discovered by a later operation and
\* handed over once.
C38_Witness ==
  /\ Attachments # {}
  /\ Len(styler.flowChunks) = 3
  /\ Len(SinceAttached) > 3
  /\ IsNotification(SinceAttached[1]) /\ SinceAttached[1].arg = 1
  /\ IsNotification(SinceAttached[2]) /\ SinceAttached[2].arg = 2
  /\ ~IsNotification(SinceAttached[3])
  /\ Len(Notifications) = 3 /\ Notifications[3].arg = 3

(***************************************************************************)
(* replayFlowElementsFromOffset (OpsSpec)                                  *)
(***************************************************************************)
\* The chunks the step has appended to flowChunks.
NewChunks == SubSeq(styler'.flowChunks, Len(styler.flowChunks) + 1, Len(styler'.flowChunks))

\* The elements with a flow-into declaration whose offset lies in
\* [offset, lastOffset), in document order.
Rediscovered(offset) ==
  LET InRange(n) == /\ doc.nodes[n].nodeType = ELEMENT_NODE
                    /\ doc.nodes[n].style.flowInto # null
                    /\ offset <= getElementOffset(doc, n)
                    /\ getElementOffset(doc, n) < styler.lastOffset
  IN SelectSeq([n \in 1..Len(doc.nodes) |-> n], InRange)

\* The step leaves the cursor, the SlipMap, the cascade and the style cache
\* as they are, and does nothing at all for an offset at or after the cursor's.
ReplayFrame(offset) ==
  /\ ret'.tag \notin {"TypeError", "Error"}
  /\ styler'.last = styler.last /\ styler'.lastOffset = styler.lastOffset
  /\ styler'.offsetMap = styler.offsetMap
  /\ styler'.cascade = styler.cascade
  /\ styler'.styleMap = styler.styleMap
  /\ offset >= styler.lastOffset => styler' = styler /\ log' = log

\* The chunks appended are those of the elements of seq, in that order.
ChunksFor(seq) ==
  /\ Len(NewChunks) = Len(seq)
  /\ \A i \in 1..Len(seq) :
       /\ NewChunks[i].element = seq[i]
       /\ NewChunks[i].startOffset = getElementOffset(doc, seq[i])
       /\ NewChunks[i].flowName =
            IF doc.nodes[seq[i]].style.flowInto # null
            THEN doc.nodes[seq[i]].style.flowInto ELSE "body"

\* C39 as stated: for any offset the call keeps the frame and appends a
\* chunk for exactly the elements with a flow-into declaration whose offset
\* lies in [offset, lastOffset).
C39_Original ==
  [][\A offset \in -1..totalLength(doc) :
       ReplayFlowElementsFromOffset(offset) =>
         ReplayFrame(offset) /\ ChunksFor(Rediscovered(offset))]_vars

\* C39 amended: the same, except that for an offset before the root's the
\* call first appends a chunk for the root element, in its flow-into flow
\* or in "body" without one, and pushes the root's box when the BoxStack is
\* empty; the BoxStack is otherwise left as it is.
C39_Replay ==
  [][\A offset \in -1..totalLength(doc) :
       ReplayFlowElementsFromOffset(offset) =>
         /\ ReplayFrame(offset)
         /\ ChunksFor(IF offset < getElementOffset(doc, 1) /\ offset < styler.lastOffset
                      THEN <<1>> \o Rediscovered(offset)
                      ELSE Rediscovered(offset))
         /\ IF offset < getElementOffset(doc, 1) /\ empty(styler.boxStack)
            THEN Len(styler'.boxStack.stack) = 1 /\ styler'.boxStack.stack[1].offset = 0
            ELSE styler'.boxStack = styler.boxStack]_vars

\* The last call was a replay with the cursor past the second node, an
\* element with a flow-into declaration at offset 1: its chunk has been
\* appended again after the two discovered by the traversal.
C39_Witness ==
  /\ ret.op = "replayFlowElementsFromOffset"
  /\ styler.lastOffset > 2
  /\ Len(styler.flowChunks) = 3
  /\ styler.flowChunks[1].element = 1
  /\ styler.flowChunks[2].element = 2 /\ styler.flowChunks[2].startOffset = 1
  /\ styler.flowChunks[3] = styler.flowChunks[2]

(***************************************************************************)
(* Promotion of writing-mode and direction (TopSpec)                       *)
(***************************************************************************)
\* The body element has been reached by the traversal.
BodyVisited ==
  /\ doc.body # nullNode
  /\ styler.bodyReached
  /\ styler.lastOffset > getElementOffset(doc, doc.body)

\* C36: once the body element has been reached, a writing-mode or direction
\* value it declares is the one held by the document-level style record,
\* also when the root element had promoted a value of its own.
C36_Original ==
  BodyVisited =>
    \A propName \in {"writingMode", "direction"} :
      doc.nodes[doc.body].style[propName] # null =>
        styler.rootStyle[propName] = doc.nodes[doc.body].style[propName]

====
